---------------------------- MODULE Spec2Model ----------------------------
(***************************************************************************)
(* Model of the SRAG data scripts (ArgusPortal/ProjetoSRAG):               *)
(*   processar_srag.py       loader, cleaning, categorical mapper, export  *)
(*   unificacao.py           robust CSV loader and file unification        *)
(*   filtrar_dados_srag.py   record filter                                 *)
(*   formatar_dicionario.py  dictionary re-formatter                       *)
(*                                                                         *)
(* A text value (a Python str) is a sequence of one-character strings, so  *)
(* that strip, upper, replace and the regular expressions of the source    *)
(* are computed character by character.  A table cell is either such a     *)
(* text (for a numeric cell: its str(), e.g. 1.0 is <<"1",".","0">>) or    *)
(* Null (pandas None/NaN).                                                 *)
(*                                                                         *)
(* Each script is one specification over its own variables; the variables  *)
(* of the other scripts are parked at a constant.                          *)
(***************************************************************************)
EXTENDS Integers, Sequences, FiniteSets, TLC

VARIABLES
  df,            \* aplicar_categorias_completo: the table (column name -> cells)
  df_entrada,    \* the table as first given to the mapper
  df_1,          \* the table returned by the first application
  chamadas,      \* number of applications of the mapper so far
  lp_df,         \* limpar_dados: the frame (before, then after cleaning)
  lp_entrada,    \* the frame given to limpar_dados
  lp_feito,      \* limpar_dados has returned
  cg_loader,     \* the loader running: "robusto" (carregar_csv_robusto) or "dados"
  cg_arq,        \* the file it was given
  cg_tentativas, \* carregar_csv_robusto's parameter tentativas
  cg_dbfread,    \* whether the dbfread library is installed
  cg_configs,    \* the configurations the loader goes through
  cg_i,          \* the number of the configuration that is up
  cg_log,        \* the configurations attempted so far, in order
  cg_pc,         \* "parado", "inicio", "tentando", "retornou"
  cg_ret,        \* what the loader returned
  un_arquivos,   \* unificacao.py: the files behind arquivos_csv, in order
  un_k,          \* the position of the load loop in arquivos_csv
  un_pc,         \* "parado", "loop", "carregando", "fim"
  un_dataframes, \* the list dataframes
  un_carregados, \* the positions of arquivos_csv whose file loaded
  un_disco_ok,   \* whether the unified file could be written
  un_saida,      \* the file at caminho_saida
  un_status,     \* the exit status, once un_pc = "fim"
  fm_existe,     \* formatar_dicionario: whether arquivo_entrada exists
  fm_conteudo,   \* the content of arquivo_entrada
  fm_formato,    \* the parameter formato
  fm_linhas,     \* linhas
  fm_i,          \* i, counted from 1
  fm_processadas,\* linhas_processadas
  fm_origem,     \* for each entry of linhas_processadas, what went into it
  fm_pc,         \* "parado", "inicio", "laco", "fim"
  fm_saida,      \* the file at arquivo_saida
  fm_ret,        \* "pendente", "True", "False"
  fm_voltas,     \* iterations of the main loop so far
  fl_chamada,    \* filtrar_dados_srag.py: run through "main" or called "direto"
  fl_sobrescrever, \* main: args.sobrescrever
  fl_entrada,    \* arquivo_entrada
  fl_saida,      \* arquivo_saida (for main: args.saida until the call)
  fl_backup,     \* the parameter backup
  fl_fs,         \* the files, by path
  fl_original,   \* the frame as loaded
  fl_df,         \* df
  fl_pc,         \* "parado", "main", "carregar", "backup", "filtro1", "filtro2",
                 \* "gravar", "retornou", "fim"
  fl_erro,       \* the step that raised: "nenhum", "leitura", "backup", "filtro",
                 \* "gravacao"
  fl_ret,        \* "pendente", "True", "False"
  fl_status,     \* what main returns, once fl_pc = "fim"
  pp_arquivo,    \* processar_dados_srag: the file at caminho_arquivo
  pp_df,         \* df
  pp_etapas,     \* the stages run so far, in order
  pp_pc,         \* "parado", "inicio", "carregando", "limpar", "renomear",
                 \* "mapear", "calcular", "exportar", "fim"
  pp_saida,      \* the file at arquivo_saida
  pp_ret,        \* what processar_dados_srag returned
  fn_op,         \* the table function applied on its own
  fn_entrada,    \* the table it is given
  fn_limiar,     \* remover_colunas_nulas: threshold, as <<numerator, denominator>>
  fn_saida,      \* the table it returned
  fn_feito,      \* it has returned
  an_pc,         \* analisar_formatacao: "parado", "inicio", "fim"
  an_nomes_original,  \* nomes_original
  an_nomes_formatado, \* nomes_formatado
  an_ret         \* "pendente", "True", "False"

varsMapper == <<df, df_entrada, df_1, chamadas>>
varsLimpar == <<lp_df, lp_entrada, lp_feito>>
varsCarga == <<cg_loader, cg_arq, cg_tentativas, cg_dbfread, cg_configs, cg_i,
               cg_log, cg_pc, cg_ret>>
varsUnif == <<un_arquivos, un_k, un_pc, un_dataframes, un_carregados, un_disco_ok,
              un_saida, un_status>>

varsFmt == <<fm_existe, fm_conteudo, fm_formato, fm_linhas, fm_i, fm_processadas,
             fm_origem, fm_pc, fm_saida, fm_ret, fm_voltas>>

varsFiltrar == <<fl_chamada, fl_sobrescrever, fl_entrada, fl_saida, fl_backup, fl_fs,
                 fl_original, fl_df, fl_pc, fl_erro, fl_ret, fl_status>>

varsPipe == <<pp_arquivo, pp_df, pp_etapas, pp_pc, pp_saida, pp_ret>>

varsFn == <<fn_op, fn_entrada, fn_limiar, fn_saida, fn_feito>>

varsAnalise == <<an_pc, an_nomes_original, an_nomes_formatado, an_ret>>

vars == <<varsMapper, varsLimpar, varsCarga, varsUnif, varsFmt, varsFiltrar,
          varsPipe, varsFn, varsAnalise>>

\* What an action of one script leaves alone: the other scripts' variables
restoMapper == <<varsLimpar, varsCarga, varsUnif, varsFmt, varsFiltrar, varsPipe, varsFn,
                 varsAnalise>>
restoLimpar == <<varsMapper, varsCarga, varsUnif, varsFmt, varsFiltrar, varsPipe, varsFn,
                 varsAnalise>>
restoCarga == <<varsMapper, varsLimpar, varsUnif, varsFmt, varsFiltrar, varsPipe, varsFn,
                 varsAnalise>>
restoUnif == <<varsMapper, varsLimpar, varsFmt, varsFiltrar, varsPipe, varsFn,
                 varsAnalise>>
restoFmt == <<varsMapper, varsLimpar, varsCarga, varsUnif, varsFiltrar, varsPipe, varsFn,
                 varsAnalise>>
restoFiltrar == <<varsMapper, varsLimpar, varsCarga, varsUnif, varsFmt, varsPipe, varsFn,
                 varsAnalise>>
restoPipe == <<varsMapper, varsLimpar, varsUnif, varsFmt, varsFiltrar, varsFn,
                 varsAnalise>>
restoFn == <<varsMapper, varsLimpar, varsCarga, varsUnif, varsFmt, varsFiltrar, varsPipe,
                 varsAnalise>>
restoAnalise == <<varsMapper, varsLimpar, varsCarga, varsUnif, varsFiltrar, varsPipe,
                  varsFn>>

-----------------------------------------------------------------------------
(* Text primitives (Python str methods used by the scripts)                *)

\* pandas null (None / NaN): a value no text operation produces
Null == << "<null>" >>

LowerChars ==
  <<"a","b","c","d","e","f","g","h","i","j","k","l","m","n","o","p","q","r","s","t","u","v","w","x","y","z","à","á","â","ã","ç","é","ê","í","ó","ô","õ","ú","ü">>
UpperChars ==
  <<"A","B","C","D","E","F","G","H","I","J","K","L","M","N","O","P","Q","R","S","T","U","V","W","X","Y","Z","À","Á","Â","Ã","Ç","É","Ê","Í","Ó","Ô","Õ","Ú","Ü">>

\* str.upper(), one character
ToUpper(c) ==
  IF \E k \in DOMAIN LowerChars : LowerChars[k] = c
  THEN UpperChars[CHOOSE k \in DOMAIN LowerChars : LowerChars[k] = c]
  ELSE c

\* str.upper()
str_upper(s) == [k \in DOMAIN s |-> ToUpper(s[k])]

\* str.isspace(), one character
IsSpace(c) == c \in {" ", "\t", "\n", "\r"}

RECURSIVE str_lstrip(_)
\* str.lstrip()
str_lstrip(s) ==
  IF s # <<>> /\ IsSpace(s[1]) THEN str_lstrip(Tail(s)) ELSE s

RECURSIVE str_rstrip(_)
\* str.rstrip()
str_rstrip(s) ==
  IF s # <<>> /\ IsSpace(s[Len(s)])
  THEN str_rstrip(SubSeq(s, 1, Len(s) - 1))
  ELSE s

\* str.strip()
str_strip(s) == str_lstrip(str_rstrip(s))

RECURSIVE str_replace(_, _, _)
\* str.replace(old, new) for a non-empty old: every non-overlapping
\* occurrence, scanning from the left
str_replace(s, old, new) ==
  IF Len(s) < Len(old) THEN s
  ELSE IF SubSeq(s, 1, Len(old)) = old
       THEN new \o str_replace(SubSeq(s, Len(old) + 1, Len(s)), old, new)
       ELSE <<s[1]>> \o str_replace(Tail(s), old, new)

\* Series.astype(str), one cell: a null becomes the text "nan"
astype_str(x) == IF x = Null THEN <<"n","a","n">> ELSE x

\* pd.notnull, one cell
notnull(x) == x # Null

-----------------------------------------------------------------------------
(* processar_srag.py: aplicar_categorias_completo                          *)

\* The lookup table: field -> sequence of <<code, label>> in source order
categorias ==
     ("NU_NOTIFIC" :> <<>>)
  @@ ("DT_NOTIFIC" :> <<>>)
  @@ ("SEM_NOT" :> <<>>)
  @@ ("DT_SIN_PRI" :> <<>>)
  @@ ("SEM_PRI" :> <<>>)
  @@ ("SG_UF_NOT" :> <<>>)
  @@ ("ID_REGIONA" :> <<>>)
  @@ ("CO_REGIONA" :> <<>>)
  @@ ("ID_MUNICIP" :> <<>>)
  @@ ("CO_MUN_NOT" :> <<>>)
  @@ ("ID_UNIDADE" :> <<>>)
  @@ ("TEM_CPF" :> <<<<<<"1">>, <<"S","i","m">>>>, <<<<"2">>, <<"N","ã","o">>>>>>)
  @@ ("ESTRANG" :> <<<<<<"1">>, <<"S","i","m">>>>, <<<<"2">>, <<"N","ã","o">>>>>>)
  @@ ("CS_SEXO" :> <<<<<<"1">>, <<"M","a","s","c","u","l","i","n","o">>>>, <<<<"2">>, <<"F","e","m","i","n","i","n","o">>>>, <<<<"9">>, <<"I","g","n","o","r","a","d","o">>>>>>)
  @@ ("DT_NASC" :> <<>>)
  @@ ("NU_IDADE_N" :> <<>>)
  @@ ("TP_IDADE" :> <<<<<<"1">>, <<"D","i","a">>>>, <<<<"2">>, <<"M","ê","s">>>>, <<<<"3">>, <<"A","n","o">>>>>>)
  @@ ("CS_GESTANT" :> <<<<<<"1">>, <<"1","º"," ","T","r","i","m","e","s","t","r","e">>>>, <<<<"2">>, <<"2","º"," ","T","r","i","m","e","s","t","r","e">>>>, <<<<"3">>, <<"3","º"," ","T","r","i","m","e","s","t","r","e">>>>, <<<<"4">>, <<"I","d","a","d","e"," ","G","e","s","t","a","c","i","o","n","a","l"," ","I","g","n","o","r","a","d","a">>>>, <<<<"5">>, <<"N","ã","o">>>>, <<<<"6">>, <<"N","ã","o"," ","s","e"," ","a","p","l","i","c","a">>>>, <<<<"9">>, <<"I","g","n","o","r","a","d","o">>>>>>)
  @@ ("CS_RACA" :> <<<<<<"1">>, <<"B","r","a","n","c","a">>>>, <<<<"2">>, <<"P","r","e","t","a">>>>, <<<<"3">>, <<"A","m","a","r","e","l","a">>>>, <<<<"4">>, <<"P","a","r","d","a">>>>, <<<<"5">>, <<"I","n","d","í","g","e","n","a">>>>, <<<<"9">>, <<"I","g","n","o","r","a","d","o">>>>>>)
  @@ ("CS_ESCOL_N" :> <<<<<<"0">>, <<"S","e","m"," ","e","s","c","o","l","a","r","i","d","a","d","e","/","A","n","a","l","f","a","b","e","t","o">>>>, <<<<"1">>, <<"F","u","n","d","a","m","e","n","t","a","l"," ","1","º"," ","c","i","c","l","o"," ","(","1","ª"," ","a"," ","5","ª"," ","s","é","r","i","e",")">>>>, <<<<"2">>, <<"F","u","n","d","a","m","e","n","t","a","l"," ","2","º"," ","c","i","c","l","o"," ","(","6","ª"," ","a"," ","9","ª"," ","s","é","r","i","e",")">>>>, <<<<"3">>, <<"M","é","d","i","o"," ","(","1","º"," ","a","o"," ","3","º"," ","a","n","o",")">>>>, <<<<"4">>, <<"S","u","p","e","r","i","o","r">>>>, <<<<"5">>, <<"N","ã","o"," ","s","e"," ","a","p","l","i","c","a">>>>, <<<<"9">>, <<"I","g","n","o","r","a","d","o">>>>>>)
  @@ ("ID_PAIS" :> <<>>)
  @@ ("SG_UF" :> <<>>)
  @@ ("ID_RG_RESI" :> <<>>)
  @@ ("CO_RG_RESI" :> <<>>)
  @@ ("ID_MN_RESI" :> <<>>)
  @@ ("NOSOCOMIAL" :> <<<<<<"1">>, <<"S","i","m">>>>, <<<<"2">>, <<"N","ã","o">>>>, <<<<"9">>, <<"I","g","n","o","r","a","d","o">>>>>>)
  @@ ("AVE_SUINO" :> <<<<<<"1">>, <<"S","i","m">>>>, <<<<"2">>, <<"N","ã","o">>>>, <<<<"9">>, <<"I","g","n","o","r","a","d","o">>>>>>)
  @@ ("OUT_ANIM" :> <<>>)
  @@ ("FEBRE" :> <<<<<<"1">>, <<"S","i","m">>>>, <<<<"2">>, <<"N","ã","o">>>>, <<<<"9">>, <<"I","g","n","o","r","a","d","o">>>>>>)
  @@ ("TOSSE" :> <<<<<<"1">>, <<"S","i","m">>>>, <<<<"2">>, <<"N","ã","o">>>>, <<<<"9">>, <<"I","g","n","o","r","a","d","o">>>>>>)
  @@ ("GARGANTA" :> <<<<<<"1">>, <<"S","i","m">>>>, <<<<"2">>, <<"N","ã","o">>>>, <<<<"9">>, <<"I","g","n","o","r","a","d","o">>>>>>)
  @@ ("DISPNEIA" :> <<<<<<"1">>, <<"S","i","m">>>>, <<<<"2">>, <<"N","ã","o">>>>, <<<<"9">>, <<"I","g","n","o","r","a","d","o">>>>>>)
  @@ ("DESC_RESP" :> <<<<<<"1">>, <<"S","i","m">>>>, <<<<"2">>, <<"N","ã","o">>>>, <<<<"9">>, <<"I","g","n","o","r","a","d","o">>>>>>)
  @@ ("SATURACAO" :> <<<<<<"1">>, <<"S","i","m">>>>, <<<<"2">>, <<"N","ã","o">>>>, <<<<"9">>, <<"I","g","n","o","r","a","d","o">>>>>>)
  @@ ("DIARREIA" :> <<<<<<"1">>, <<"S","i","m">>>>, <<<<"2">>, <<"N","ã","o">>>>, <<<<"9">>, <<"I","g","n","o","r","a","d","o">>>>>>)
  @@ ("VOMITO" :> <<<<<<"1">>, <<"S","i","m">>>>, <<<<"2">>, <<"N","ã","o">>>>, <<<<"9">>, <<"I","g","n","o","r","a","d","o">>>>>>)
  @@ ("DOR_ABD" :> <<<<<<"1">>, <<"S","i","m">>>>, <<<<"2">>, <<"N","ã","o">>>>, <<<<"9">>, <<"I","g","n","o","r","a","d","o">>>>>>)
  @@ ("FADIGA" :> <<<<<<"1">>, <<"S","i","m">>>>, <<<<"2">>, <<"N","ã","o">>>>, <<<<"9">>, <<"I","g","n","o","r","a","d","o">>>>>>)
  @@ ("PERD_OLFT" :> <<<<<<"1">>, <<"S","i","m">>>>, <<<<"2">>, <<"N","ã","o">>>>, <<<<"9">>, <<"I","g","n","o","r","a","d","o">>>>>>)
  @@ ("PERD_PALA" :> <<<<<<"1">>, <<"S","i","m">>>>, <<<<"2">>, <<"N","ã","o">>>>, <<<<"9">>, <<"I","g","n","o","r","a","d","o">>>>>>)
  @@ ("OUTRO_SIN" :> <<<<<<"1">>, <<"S","i","m">>>>, <<<<"2">>, <<"N","ã","o">>>>, <<<<"9">>, <<"I","g","n","o","r","a","d","o">>>>>>)
  @@ ("OUTRO_DES" :> <<>>)
  @@ ("FATOR_RISC" :> <<<<<<"1">>, <<"S","i","m">>>>, <<<<"2">>, <<"N","ã","o">>>>, <<<<"9">>, <<"I","g","n","o","r","a","d","o">>>>>>)
  @@ ("PUERPERA" :> <<<<<<"1">>, <<"S","i","m">>>>, <<<<"2">>, <<"N","ã","o">>>>, <<<<"9">>, <<"I","g","n","o","r","a","d","o">>>>>>)
  @@ ("CARDIOPATI" :> <<<<<<"1">>, <<"S","i","m">>>>, <<<<"2">>, <<"N","ã","o">>>>, <<<<"9">>, <<"I","g","n","o","r","a","d","o">>>>>>)
  @@ ("HEMATOLOGI" :> <<<<<<"1">>, <<"S","i","m">>>>, <<<<"2">>, <<"N","ã","o">>>>, <<<<"9">>, <<"I","g","n","o","r","a","d","o">>>>>>)
  @@ ("SIND_DOWN" :> <<<<<<"1">>, <<"S","i","m">>>>, <<<<"2">>, <<"N","ã","o">>>>, <<<<"9">>, <<"I","g","n","o","r","a","d","o">>>>>>)
  @@ ("HEPATICA" :> <<<<<<"1">>, <<"S","i","m">>>>, <<<<"2">>, <<"N","ã","o">>>>, <<<<"9">>, <<"I","g","n","o","r","a","d","o">>>>>>)
  @@ ("ASMA" :> <<<<<<"1">>, <<"S","i","m">>>>, <<<<"2">>, <<"N","ã","o">>>>, <<<<"9">>, <<"I","g","n","o","r","a","d","o">>>>>>)
  @@ ("DIABETES" :> <<<<<<"1">>, <<"S","i","m">>>>, <<<<"2">>, <<"N","ã","o">>>>, <<<<"9">>, <<"I","g","n","o","r","a","d","o">>>>>>)
  @@ ("NEUROLOGIC" :> <<<<<<"1">>, <<"S","i","m">>>>, <<<<"2">>, <<"N","ã","o">>>>, <<<<"9">>, <<"I","g","n","o","r","a","d","o">>>>>>)
  @@ ("PNEUMOPATI" :> <<<<<<"1">>, <<"S","i","m">>>>, <<<<"2">>, <<"N","ã","o">>>>, <<<<"9">>, <<"I","g","n","o","r","a","d","o">>>>>>)
  @@ ("IMUNODEPRE" :> <<<<<<"1">>, <<"S","i","m">>>>, <<<<"2">>, <<"N","ã","o">>>>, <<<<"9">>, <<"I","g","n","o","r","a","d","o">>>>>>)
  @@ ("RENAL" :> <<<<<<"1">>, <<"S","i","m">>>>, <<<<"2">>, <<"N","ã","o">>>>, <<<<"9">>, <<"I","g","n","o","r","a","d","o">>>>>>)
  @@ ("OBESIDADE" :> <<<<<<"1">>, <<"S","i","m">>>>, <<<<"2">>, <<"N","ã","o">>>>, <<<<"9">>, <<"I","g","n","o","r","a","d","o">>>>>>)
  @@ ("OBES_IMC" :> <<>>)
  @@ ("OUT_MORBI" :> <<<<<<"1">>, <<"S","i","m">>>>, <<<<"2">>, <<"N","ã","o">>>>, <<<<"9">>, <<"I","g","n","o","r","a","d","o">>>>>>)
  @@ ("MORB_DESC" :> <<>>)
  @@ ("VACINA" :> <<<<<<"1">>, <<"S","i","m">>>>, <<<<"2">>, <<"N","ã","o">>>>, <<<<"9">>, <<"I","g","n","o","r","a","d","o">>>>>>)
  @@ ("DT_UT_DOSE" :> <<>>)
  @@ ("VACINA_COV" :> <<<<<<"1">>, <<"S","i","m">>>>, <<<<"2">>, <<"N","ã","o">>>>, <<<<"9">>, <<"I","g","n","o","r","a","d","o">>>>>>)
  @@ ("DOSE_1_COV" :> <<>>)
  @@ ("DOSE_2_COV" :> <<>>)
  @@ ("DOSE_REF" :> <<>>)
  @@ ("FAB_COV_1" :> <<>>)
  @@ ("FAB_COV_2" :> <<>>)
  @@ ("FAB_COVREF" :> <<>>)
  @@ ("LAB_PR_COV" :> <<>>)
  @@ ("ANTIVIRAL" :> <<<<<<"1">>, <<"S","i","m">>>>, <<<<"2">>, <<"N","ã","o">>>>, <<<<"9">>, <<"I","g","n","o","r","a","d","o">>>>>>)
  @@ ("TP_ANTIVIR" :> <<<<<<"1">>, <<"O","s","e","l","t","a","m","i","v","i","r">>>>, <<<<"2">>, <<"Z","a","n","a","m","i","v","i","r">>>>, <<<<"3">>, <<"O","u","t","r","o">>>>>>)
  @@ ("DT_INTERNA" :> <<>>)
  @@ ("SG_UF_INTE" :> <<>>)
  @@ ("ID_RG_INTE" :> <<>>)
  @@ ("CO_RG_INTE" :> <<>>)
  @@ ("ID_MN_INTE" :> <<>>)
  @@ ("CO_MU_INTE" :> <<>>)
  @@ ("UTI" :> <<<<<<"1">>, <<"S","i","m">>>>, <<<<"2">>, <<"N","ã","o">>>>, <<<<"9">>, <<"I","g","n","o","r","a","d","o">>>>>>)
  @@ ("DT_ENTUTI" :> <<>>)
  @@ ("DT_SAIDUTI" :> <<>>)
  @@ ("SUPORT_VEN" :> <<<<<<"1">>, <<"S","i","m",","," ","i","n","v","a","s","i","v","o">>>>, <<<<"2">>, <<"S","i","m",","," ","n","ã","o"," ","i","n","v","a","s","i","v","o">>>>, <<<<"3">>, <<"N","ã","o">>>>, <<<<"9">>, <<"I","g","n","o","r","a","d","o">>>>>>)
  @@ ("RAIOX_RES" :> <<<<<<"1">>, <<"N","o","r","m","a","l">>>>, <<<<"2">>, <<"I","n","f","i","l","t","r","a","d","o"," ","i","n","t","e","r","s","t","i","c","i","a","l">>>>, <<<<"3">>, <<"C","o","n","s","o","l","i","d","a","ç","ã","o">>>>, <<<<"4">>, <<"M","i","s","t","o">>>>, <<<<"5">>, <<"O","u","t","r","o">>>>, <<<<"6">>, <<"N","ã","o"," ","r","e","a","l","i","z","a","d","o">>>>, <<<<"9">>, <<"I","g","n","o","r","a","d","o">>>>>>)
  @@ ("RAIOX_OUT" :> <<>>)
  @@ ("DT_RAIOX" :> <<>>)
  @@ ("TOMO_RES" :> <<<<<<"1">>, <<"T","í","p","i","c","o"," ","C","O","V","I","D","-","1","9">>>>, <<<<"2">>, <<"I","n","d","e","t","e","r","m","i","n","a","d","o"," ","C","O","V","I","D","-","1","9">>>>, <<<<"3">>, <<"A","t","í","p","i","c","o"," ","C","O","V","I","D","-","1","9">>>>, <<<<"4">>, <<"N","e","g","a","t","i","v","o"," ","p","a","r","a"," ","P","n","e","u","m","o","n","i","a">>>>, <<<<"5">>, <<"O","u","t","r","o">>>>, <<<<"6">>, <<"N","ã","o"," ","r","e","a","l","i","z","a","d","o">>>>, <<<<"9">>, <<"I","g","n","o","r","a","d","o">>>>>>)
  @@ ("TOMO_OUT" :> <<>>)
  @@ ("DT_TOMO" :> <<>>)
  @@ ("AMOSTRA" :> <<<<<<"1">>, <<"S","i","m">>>>, <<<<"2">>, <<"N","ã","o">>>>, <<<<"9">>, <<"I","g","n","o","r","a","d","o">>>>>>)
  @@ ("DT_COLETA" :> <<>>)
  @@ ("TP_AMOSTRA" :> <<<<<<"1">>, <<"S","e","c","r","e","ç","ã","o"," ","d","e"," ","N","a","s","o","o","r","o","f","a","r","i","n","g","e">>>>, <<<<"2">>, <<"L","a","v","a","d","o"," ","B","r","o","c","o","-","a","l","v","e","o","l","a","r">>>>, <<<<"3">>, <<"T","e","c","i","d","o"," ","p","o","s","t","-","m","o","r","t","e","m">>>>, <<<<"4">>, <<"O","u","t","r","a",","," ","q","u","a","l","?">>>>, <<<<"5">>, <<"L","C","R">>>>, <<<<"9">>, <<"I","g","n","o","r","a","d","o">>>>>>)
  @@ ("OUT_AMOST" :> <<>>)
  @@ ("TP_TES_AN" :> <<<<<<"1">>, <<"I","m","u","n","o","f","l","u","o","r","e","s","c","ê","n","c","i","a"," ","(","I","F",")">>>>, <<<<"2">>, <<"T","e","s","t","e"," ","r","á","p","i","d","o"," ","a","n","t","i","g","ê","n","i","c","o">>>>>>)
  @@ ("DT_RES_AN" :> <<>>)
  @@ ("RES_AN" :> <<<<<<"1">>, <<"P","o","s","i","t","i","v","o">>>>, <<<<"2">>, <<"N","e","g","a","t","i","v","o">>>>, <<<<"3">>, <<"I","n","c","o","n","c","l","u","s","i","v","o">>>>, <<<<"4">>, <<"N","ã","o"," ","r","e","a","l","i","z","a","d","o">>>>, <<<<"5">>, <<"A","g","u","a","r","d","a","n","d","o"," ","r","e","s","u","l","t","a","d","o">>>>, <<<<"9">>, <<"I","g","n","o","r","a","d","o">>>>>>)
  @@ ("POS_AN_FLU" :> <<<<<<"1">>, <<"S","i","m">>>>, <<<<"2">>, <<"N","ã","o">>>>, <<<<"9">>, <<"I","g","n","o","r","a","d","o">>>>>>)
  @@ ("TP_FLU_AN" :> <<<<<<"1">>, <<"I","n","f","l","u","e","n","z","a"," ","A">>>>, <<<<"2">>, <<"I","n","f","l","u","e","n","z","a"," ","B">>>>>>)
  @@ ("POS_AN_OUT" :> <<<<<<"1">>, <<"S","i","m">>>>, <<<<"2">>, <<"N","ã","o">>>>, <<<<"9">>, <<"I","g","n","o","r","a","d","o">>>>>>)
  @@ ("DS_AN_OUT" :> <<>>)
  @@ ("PCR_RESUL" :> <<<<<<"1">>, <<"D","e","t","e","c","t","á","v","e","l">>>>, <<<<"2">>, <<"N","ã","o"," ","D","e","t","e","c","t","á","v","e","l">>>>, <<<<"3">>, <<"I","n","c","o","n","c","l","u","s","i","v","o">>>>, <<<<"4">>, <<"N","ã","o"," ","r","e","a","l","i","z","a","d","o">>>>, <<<<"5">>, <<"A","g","u","a","r","d","a","n","d","o"," ","R","e","s","u","l","t","a","d","o">>>>, <<<<"9">>, <<"I","g","n","o","r","a","d","o">>>>>>)
  @@ ("DT_PCR" :> <<>>)
  @@ ("POS_PCRFLU" :> <<<<<<"1">>, <<"S","i","m">>>>, <<<<"2">>, <<"N","ã","o">>>>, <<<<"9">>, <<"I","g","n","o","r","a","d","o">>>>>>)
  @@ ("TP_FLU_PCR" :> <<<<<<"1">>, <<"I","n","f","l","u","e","n","z","a"," ","A">>>>, <<<<"2">>, <<"I","n","f","l","u","e","n","z","a"," ","B">>>>>>)
  @@ ("PCR_FLUASU" :> <<<<<<"1">>, <<"I","n","f","l","u","e","n","z","a"," ","A","(","H","1","N","1",")","p","d","m","0","9">>>>, <<<<"2">>, <<"I","n","f","l","u","e","n","z","a"," ","A"," ","(","H","3","N","2",")">>>>, <<<<"3">>, <<"I","n","f","l","u","e","n","z","a"," ","A"," ","n","ã","o"," ","s","u","b","t","i","p","a","d","o">>>>, <<<<"4">>, <<"I","n","f","l","u","e","n","z","a"," ","A"," ","n","ã","o"," ","s","u","b","t","i","p","á","v","e","l">>>>, <<<<"5">>, <<"I","n","c","o","n","c","l","u","s","i","v","o">>>>, <<<<"6">>, <<"O","u","t","r","o",","," ","e","s","p","e","c","i","f","i","q","u","e">>>>>>)
  @@ ("FLUASU_OUT" :> <<>>)
  @@ ("AN_SARS2" :> <<<<<<"1">>, <<"S","i","m">>>>>>)
  @@ ("AN_VSR" :> <<<<<<"1">>, <<"S","i","m">>>>>>)
  @@ ("CLASSI_FIN" :> <<<<<<"1">>, <<"S","R","A","G"," ","p","o","r"," ","i","n","f","l","u","e","n","z","a">>>>, <<<<"2">>, <<"S","R","A","G"," ","p","o","r"," ","o","u","t","r","o"," ","v","í","r","u","s"," ","r","e","s","p","i","r","a","t","ó","r","i","o">>>>, <<<<"3">>, <<"S","R","A","G"," ","p","o","r"," ","o","u","t","r","o"," ","a","g","e","n","t","e"," ","e","t","i","o","l","ó","g","i","c","o">>>>, <<<<"4">>, <<"S","R","A","G"," ","n","ã","o"," ","e","s","p","e","c","i","f","i","c","a","d","o">>>>, <<<<"5">>, <<"S","R","A","G"," ","p","o","r"," ","c","o","v","i","d","-","1","9">>>>>>)
  @@ ("CLASSI_OUT" :> <<>>)
  @@ ("CRITERIO" :> <<<<<<"1">>, <<"L","a","b","o","r","a","t","o","r","i","a","l">>>>, <<<<"2">>, <<"C","l","í","n","i","c","o"," ","E","p","i","d","e","m","i","o","l","ó","g","i","c","o">>>>, <<<<"3">>, <<"C","l","í","n","i","c","o">>>>, <<<<"4">>, <<"C","l","í","n","i","c","o"," ","I","m","a","g","e","m">>>>>>)
  @@ ("EVOLUCAO" :> <<<<<<"1">>, <<"C","u","r","a">>>>, <<<<"2">>, <<"Ó","b","i","t","o">>>>, <<<<"3">>, <<"Ó","b","i","t","o"," ","p","o","r"," ","o","u","t","r","a","s"," ","c","a","u","s","a","s">>>>, <<<<"9">>, <<"I","g","n","o","r","a","d","o">>>>>>)
  @@ ("DT_EVOLUCA" :> <<>>)
  @@ ("DT_ENCERRA" :> <<>>)
  @@ ("DT_DIGITA" :> <<>>)
  @@ ("PAC_DSCBO" :> <<>>)

\* Every label of the table, upper-cased
todos_valores_texto ==
  UNION { { str_upper(categorias[campo][k][2]) : k \in DOMAIN categorias[campo] } :
            campo \in DOMAIN categorias }

campos_checkbox ==
  {"AN_SARS2", "AN_VSR", "AN_PARA1", "AN_PARA2", "AN_PARA3", "AN_ADENO", "AN_OUTRO",
   "PCR_SARS2", "PCR_VSR", "PCR_PARA1", "PCR_PARA2", "PCR_PARA3", "PCR_PARA4",
   "PCR_ADENO", "PCR_METAP", "PCR_BOCA", "PCR_RINO", "PCR_OUTRO"}

\* Rows of a column that hold a non-null cell (Series.dropna)
nao_nulos(col) == {i \in DOMAIN col : notnull(col[i])}

\* The distinct non-null values of a column, trimmed and upper-cased
valores_unicos(col) == { str_upper(str_strip(astype_str(col[i]))) : i \in nao_nulos(col) }

\* "already fully mapped": some value is a label and none is anything else
ja_mapeado(col) ==
  LET valores_texto == valores_unicos(col) \cap todos_valores_texto
      valores_originais == valores_unicos(col) \ todos_valores_texto
  IN valores_texto # {} /\ valores_originais = {}

\* Mutant of mascara: exact codes only, the float form "1.0" is not matched
mascara_exata(x, codigo) ==
  str_strip(astype_str(x)) = str_strip(codigo)

\* The row mask of one code: the trimmed text is the code, or the text with
\* every ".0" removed is the code
mascara(x, codigo) ==
  \/ str_strip(astype_str(x)) = str_strip(codigo)
  \/ (notnull(x) /\ str_replace(x, <<".","0">>, <<>>) = str_strip(codigo))

RECURSIVE mapear_codigos(_, _, _)
\* The loop over the codes of one field, from code number k on: each code
\* overwrites, in place, the cells its mask selects
mapear_codigos(col, mapa, k) ==
  IF k > Len(mapa) THEN col
  ELSE mapear_codigos(
         [i \in DOMAIN col |->
            IF mascara(col[i], mapa[k][1]) THEN mapa[k][2] ELSE col[i]],
         mapa, k + 1)

\* The general pass on one column
mapear_campo(campo, col) ==
  IF campo \in DOMAIN categorias /\ categorias[campo] # <<>> /\ ~ja_mapeado(col)
  THEN mapear_codigos(col, categorias[campo], 1)
  ELSE col

\* The row mask of the checkbox pass: the trimmed text is "1" or "1.0"
mascara_sim(x) ==
  notnull(x) /\ str_strip(x) \in {<<"1">>, <<"1",".","0">>}

\* Mutant of mapear_checkbox: "1"/"1.0" become "Sim" and every other
\* non-null cell "Não", without looking for labels already present
mapear_checkbox_ingenuo(campo, col) ==
  IF campo \notin campos_checkbox THEN col
  ELSE [i \in DOMAIN col |->
          IF mascara_sim(col[i]) THEN <<"S","i","m">>
          ELSE IF notnull(col[i]) THEN <<"N","ã","o">>
          ELSE col[i]]

\* The checkbox pass on one column
mapear_checkbox(campo, col) ==
  IF campo \notin campos_checkbox THEN col
  ELSE LET valores == { str_upper(astype_str(col[i])) : i \in nao_nulos(col) }
       IN IF <<"S","I","M">> \in valores \/ <<"N","Ã","O">> \in valores
          THEN col
          ELSE IF \E i \in DOMAIN col : mascara_sim(col[i])
               THEN [i \in DOMAIN col |->
                       IF mascara_sim(col[i]) THEN <<"S","i","m">>
                       ELSE IF notnull(col[i]) THEN <<"N","ã","o">>
                       ELSE col[i]]
               ELSE col

\* The whole mapper: the general pass over every field of the table present
\* in the frame, then the checkbox pass; the frame is changed in place
aplicar_categorias_completo(t) ==
  [c \in DOMAIN t |-> mapear_checkbox(c, mapear_campo(c, t[c]))]

-----------------------------------------------------------------------------
(* Specification of the mapper: a table is drawn, then the mapper is       *)
(* applied to it MaxChamadas times in a row                                *)

MaxCelulas == 3
MaxChamadas == 2

\* Columns of the drawn tables: a plain lookup field, a field that is both
\* in the lookup table and a checkbox, a checkbox outside the lookup table,
\* and a field whose lookup entry is empty
ColunasModelo == {"CS_SEXO", "AN_SARS2", "PCR_VSR", "DT_NOTIFIC"}

\* Cells of the drawn tables
Celulas ==
  { Null, <<"1">>, <<"2">>, <<"1",".","0">>, <<" ","1",".","0">>,
    <<".","0","1">>, <<"7">>, <<"S","i","m">>, <<"N","ã","o">> }

\* Tables of at most max cells: every column has the same row count
Tabelas(max) ==
  UNION { UNION { [S -> [1..n -> Celulas]] :
                    S \in {T \in SUBSET ColunasModelo :
                             T # {} /\ Cardinality(T) * n <= max} } :
            n \in 1..max }

MapperInit ==
  /\ df \in Tabelas(MaxCelulas)
  /\ df_entrada = df
  /\ df_1 = df
  /\ chamadas = 0

\* df = aplicar_categorias_completo(df)
Aplicar ==
  /\ chamadas < MaxChamadas
  /\ df' = aplicar_categorias_completo(df)
  /\ df_1' = IF chamadas = 0 THEN df' ELSE df_1
  /\ chamadas' = chamadas + 1
  /\ UNCHANGED df_entrada
  /\ UNCHANGED restoMapper

MapperNext == Aplicar

\* The mapper's variables while another script runs
MapperParado == df = <<>> /\ df_entrada = <<>> /\ df_1 = <<>> /\ chamadas = 0

-----------------------------------------------------------------------------
(* processar_srag.py: remover_colunas_nulas, limpar_dados                  *)
(*                                                                         *)
(* A frame is [colunas: the column names in order, tipos: the dtype of     *)
(* each column, linhas: the rows in order, each a function from column     *)
(* name to cell].                                                          *)

RECURSIVE SelectIdx(_, _, _)
\* The elements of seq, from index k on, whose index is in keep, in order
SelectIdx(seq, keep, k) ==
  IF k > Len(seq) THEN <<>>
  ELSE (IF k \in keep THEN <<seq[k]>> ELSE <<>>) \o SelectIdx(seq, keep, k + 1)

\* DataFrame.drop_duplicates(): a row equal in every column to an earlier
\* row is dropped (nulls compare equal), the first occurrence is kept
drop_duplicates(f) ==
  LET primeiras == {i \in DOMAIN f.linhas :
                      ~\E j \in 1..(i - 1) : f.linhas[j] = f.linhas[i]}
  IN [f EXCEPT !.linhas = SelectIdx(f.linhas, primeiras, 1)]

\* DataFrame.drop(columns=...) / DataFrame[[...]]: the frame with only the
\* columns at the positions in manter, in their order
so_colunas(f, manter) ==
  LET cs == SelectIdx(f.colunas, manter, 1)
      nomes == {cs[k] : k \in DOMAIN cs}
  IN [colunas |-> cs,
      tipos |-> [c \in nomes |-> f.tipos[c]],
      linhas |-> [i \in DOMAIN f.linhas |-> [c \in nomes |-> f.linhas[i][c]]]]

\* A variant that drops only the columns strictly above the threshold
remover_colunas_nulas_acima(f, num, den) ==
  LET n == Len(f.linhas)
      nulos(c) == Cardinality({i \in 1..n : f.linhas[i][c] = Null})
      colunas_remover == {k \in DOMAIN f.colunas :
                            n > 0 /\ nulos(f.colunas[k]) * den > num * n}
  IN IF colunas_remover # {}
     THEN so_colunas(f, DOMAIN f.colunas \ colunas_remover)
     ELSE f

\* remover_colunas_nulas(df, threshold) with threshold = num/den: the columns
\* whose fraction of null cells is >= threshold are dropped; the mean over
\* zero rows is NaN, which is >= nothing
remover_colunas_nulas(f, num, den) ==
  LET n == Len(f.linhas)
      nulos(c) == Cardinality({i \in 1..n : f.linhas[i][c] = Null})
      colunas_remover == {k \in DOMAIN f.colunas :
                            n > 0 /\ nulos(f.colunas[k]) * den >= num * n}
  IN IF colunas_remover # {}
     THEN so_colunas(f, DOMAIN f.colunas \ colunas_remover)
     ELSE f

\* The loop over the text columns: astype(str).str.strip().str.upper()
padronizar_textos(f) ==
  [f EXCEPT !.linhas =
     [i \in DOMAIN f.linhas |->
        [c \in DOMAIN f.linhas[i] |->
           IF f.tipos[c] = "object"
           THEN str_upper(str_strip(astype_str(f.linhas[i][c])))
           ELSE f.linhas[i][c]]]]

\* limpar_dados(df): duplicates are dropped first, then the all-null columns
\* (threshold 1.0), then the text columns are trimmed and upper-cased
limpar_dados(f) ==
  padronizar_textos(remover_colunas_nulas(drop_duplicates(f), 1, 1))

-----------------------------------------------------------------------------
(* Specification of the cleaning step                                      *)

MaxLinhas == 3

\* Columns of the drawn frames: a text column and a numeric one
ColunasLimpar == <<"ID_MUNICIP", "NU_IDADE_N">>
TiposLimpar == [ID_MUNICIP |-> "object", NU_IDADE_N |-> "float64"]

\* Cells of a drawn column, by dtype
CelulasDoTipo(tipo) ==
  IF tipo = "object"
  THEN {Null, <<"a">>, <<"A">>, <<"A"," ">>, <<"N","A","N">>}
  ELSE {Null, <<"1">>, <<"2">>}

\* Frames of up to max rows over the first k columns of ColunasLimpar
Quadros(max) ==
  UNION { { [colunas |-> SubSeq(ColunasLimpar, 1, k),
             tipos |-> [c \in {ColunasLimpar[j] : j \in 1..k} |-> TiposLimpar[c]],
             linhas |-> ls] :
              ls \in [1..n -> {r \in [{ColunasLimpar[j] : j \in 1..k} ->
                                        UNION {CelulasDoTipo(t) : t \in {"object", "float64"}}] :
                                 \A c \in DOMAIN r : r[c] \in CelulasDoTipo(TiposLimpar[c])}] } :
            k \in 1..Len(ColunasLimpar), n \in 0..max }

LimparInit ==
  /\ lp_df \in Quadros(MaxLinhas)
  /\ lp_entrada = lp_df
  /\ lp_feito = FALSE

\* df = limpar_dados(df)
Limpar ==
  /\ ~lp_feito
  /\ lp_df' = limpar_dados(lp_df)
  /\ lp_feito' = TRUE
  /\ UNCHANGED lp_entrada
  /\ UNCHANGED restoLimpar

LimparNext == Limpar

\* The cleaning step's variables while another script runs
LimparParado == lp_df = <<>> /\ lp_entrada = <<>> /\ lp_feito = FALSE

-----------------------------------------------------------------------------
(* unificacao.py: carregar_csv_robusto, and processar_srag.py:             *)
(* carregar_dados.  One attempt to parse the file is one step.             *)
(*                                                                         *)
(* A file is [existe: os.path.exists, ext: its extension, le: the          *)
(* read_csv configurations under which it parses, quadro: the frame it     *)
(* parses to].                                                             *)

\* A pd.read_csv configuration (low_memory=False in every one of them)
Config(enc, sep, eng, bad) ==
  [encoding |-> enc, sep |-> sep, engine |-> eng, on_bad_lines |-> bad]

\* carregar_csv_robusto: the configurations, in order of preference
configs ==
  << Config("latin1", ";", "c", "error"),
     Config("latin1", ",", "c", "error"),
     Config("utf-8", ";", "c", "error"),
     Config("latin1", "None", "python", "error") >>

\* carregar_dados (encoding='latin1', sep=';'): csv_opts as the first try
\* and each nested except set it
configs_dados ==
  << Config("latin1", ";", "c", "warn"),
     Config("utf-8", ";", "c", "warn"),
     Config("latin1", ",", "c", "warn"),
     Config("latin1", "None", "python", "skip") >>

\* def carregar_csv_robusto(arquivo, tentativas=4)
tentativas_padrao == 4

\* colunas_para_manter: the columns the unification keeps
colunas_para_manter ==
  <<"DT_NOTIFIC", "DT_SIN_PRI", "SG_UF_NOT", "ID_REGIONA", "ID_MUNICIP",
    "ID_UNIDADE", "CS_SEXO", "DT_NASC", "NU_IDADE_N", "TP_IDADE",
    "CS_GESTANT", "CS_RACA", "CS_ESCOL_N", "ID_PAIS", "SG_UF", "ID_RG_RESI",
    "ID_MN_RESI", "NOSOCOMIAL", "AVE_SUINO", "FEBRE", "TOSSE", "GARGANTA",
    "DISPNEIA", "DESC_RESP", "SATURACAO", "DIARREIA", "VOMITO", "OUTRO_SIN",
    "OUTRO_DES", "PUERPERA", "FATOR_RISC", "CARDIOPATI", "HEMATOLOGI",
    "SIND_DOWN", "HEPATICA", "ASMA", "DIABETES", "NEUROLOGIC", "PNEUMOPATI",
    "IMUNODEPRE", "RENAL", "OBESIDADE", "OBES_IMC", "OUT_MORBI", "MORB_DESC",
    "VACINA", "DT_UT_DOSE", "ANTIVIRAL", "TP_ANTIVIR", "DT_INTERNA",
    "SG_UF_INTE", "ID_RG_INTE", "ID_MN_INTE", "UTI", "DT_ENTUTI",
    "DT_SAIDUTI", "SUPORT_VEN", "RAIOX_RES", "RAIOX_OUT", "DT_RAIOX",
    "AMOSTRA", "DT_COLETA", "TP_AMOSTRA", "OUT_AMOST", "PCR_RESUL", "DT_PCR",
    "POS_PCRFLU", "TP_FLU_PCR", "PCR_FLUASU", "FLUASU_OUT", "CLASSI_FIN",
    "CLASSI_OUT", "CRITERIO", "EVOLUCAO", "DT_EVOLUCA", "DT_ENCERRA",
    "DT_DIGITA", "PAC_DSCBO", "DOR_ABD", "FADIGA", "PERD_OLFT", "PERD_PALA",
    "TOMO_RES", "TOMO_OUT", "DT_TOMO", "DS_AN_OUT", "TP_TES_AN", "DT_RES_AN",
    "RES_AN", "POS_AN_FLU", "TP_FLU_AN", "POS_AN_OUT", "AN_SARS2", "AN_VSR",
    "ESTRANG", "VACINA_COV", "DOSE_1_COV", "DOSE_2_COV", "DOSE_REF",
    "FAB_COV_1", "FAB_COV_2", "FAB_COVREF", "LAB_PR_COV">>

SemQuadro == [colunas |-> <<>>, tipos |-> <<>>, linhas |-> <<>>]

\* What a loader returns: pending, None, a frame, or an exception let through
RetPendente == [tipo |-> "pendente", df |-> SemQuadro]
RetNone == [tipo |-> "None", df |-> SemQuadro]
RetDf(f) == [tipo |-> "df", df |-> f]
RetExcecao == [tipo |-> "excecao", df |-> SemQuadro]

\* Mutant of fatiar: the limit is ignored
fatiar_tudo(seq, n) == seq

\* Python seq[:n]
fatiar(seq, n) ==
  IF n >= 0
  THEN SubSeq(seq, 1, IF n < Len(seq) THEN n ELSE Len(seq))
  ELSE SubSeq(seq, 1, IF Len(seq) + n > 0 THEN Len(seq) + n ELSE 0)

\* Mutant of filtrar_colunas_existentes: the wanted columns are kept in the
\* frame's own order and duplicate rows are dropped on the way
filtrar_colunas_sem_duplicatas(f, colunas_desejadas) ==
  drop_duplicates(
    so_colunas(f, {k \in DOMAIN f.colunas :
                     \E j \in DOMAIN colunas_desejadas :
                       colunas_desejadas[j] = f.colunas[k]}))

\* filtrar_colunas_existentes(df, colunas_desejadas): df[colunas_existentes],
\* the wanted columns that exist, in the order of colunas_desejadas
filtrar_colunas_existentes(f, colunas_desejadas) ==
  LET colunas_existentes ==
        SelectSeq(colunas_desejadas,
                  LAMBDA c : \E k \in DOMAIN f.colunas : f.colunas[k] = c)
      nomes == {colunas_existentes[k] : k \in DOMAIN colunas_existentes}
  IN [colunas |-> colunas_existentes,
      tipos |-> [c \in nomes |-> f.tipos[c]],
      linhas |-> [i \in DOMAIN f.linhas |-> [c \in nomes |-> f.linhas[i][c]]]]

\* carregar_csv_robusto, up to the loop: a missing file returns None at once
CargaInicio ==
  /\ cg_pc = "inicio" /\ cg_loader = "robusto"
  /\ IF ~cg_arq.existe
     THEN /\ cg_ret' = RetNone
          /\ cg_pc' = "retornou"
          /\ UNCHANGED cg_configs
     ELSE /\ cg_configs' = fatiar(configs, cg_tentativas)
          /\ cg_pc' = "tentando"
          /\ UNCHANGED cg_ret
  /\ cg_i' = 1
  /\ UNCHANGED <<cg_loader, cg_arq, cg_tentativas, cg_dbfread, cg_log>>
  /\ UNCHANGED restoCarga

\* carregar_dados, the dispatch on the extension: a DBF file is read with
\* dbfread (None when it is not installed), a CSV file goes through the
\* configurations, an Excel file is read, anything else returns None; an
\* error reading a DBF or Excel file is not caught
DadosInicio ==
  /\ cg_pc = "inicio" /\ cg_loader = "dados"
  /\ cg_i' = 1
  /\ CASE cg_arq.ext = "dbf" ->
            /\ cg_ret' = IF ~cg_dbfread THEN RetNone
                         ELSE IF cg_arq.existe THEN RetDf(cg_arq.quadro)
                         ELSE RetExcecao
            /\ cg_pc' = "retornou"
            /\ UNCHANGED cg_configs
       [] cg_arq.ext = "csv" ->
            /\ cg_configs' = configs_dados
            /\ cg_pc' = "tentando"
            /\ UNCHANGED cg_ret
       [] cg_arq.ext = "xlsx" ->
            /\ cg_ret' = IF cg_arq.existe THEN RetDf(cg_arq.quadro) ELSE RetExcecao
            /\ cg_pc' = "retornou"
            /\ UNCHANGED cg_configs
       [] OTHER ->
            /\ cg_ret' = RetNone
            /\ cg_pc' = "retornou"
            /\ UNCHANGED cg_configs
  /\ UNCHANGED <<cg_loader, cg_arq, cg_tentativas, cg_dbfread, cg_log>>
  /\ UNCHANGED restoCarga

\* One attempt: pd.read_csv under the next configuration; on success the
\* frame is returned (carregar_csv_robusto keeps only the wanted columns),
\* on an exception the next configuration is up
CargaTentar ==
  /\ cg_pc = "tentando" /\ cg_i <= Len(cg_configs)
  /\ cg_log' = Append(cg_log, cg_configs[cg_i])
  /\ IF cg_configs[cg_i] \in cg_arq.le
     THEN /\ cg_ret' = IF cg_loader = "robusto"
                       THEN RetDf(filtrar_colunas_existentes(cg_arq.quadro,
                                                             colunas_para_manter))
                       ELSE RetDf(cg_arq.quadro)
          /\ cg_pc' = "retornou"
          /\ UNCHANGED cg_i
     ELSE /\ cg_i' = cg_i + 1
          /\ UNCHANGED <<cg_ret, cg_pc>>
  /\ UNCHANGED <<cg_loader, cg_arq, cg_tentativas, cg_dbfread, cg_configs>>
  /\ UNCHANGED restoCarga

\* No configuration is left: None
CargaEsgotar ==
  /\ cg_pc = "tentando" /\ cg_i > Len(cg_configs)
  /\ cg_ret' = RetNone
  /\ cg_pc' = "retornou"
  /\ UNCHANGED <<cg_loader, cg_arq, cg_tentativas, cg_dbfread, cg_configs, cg_i, cg_log>>
  /\ UNCHANGED restoCarga

-----------------------------------------------------------------------------
(* Specification of the two loaders: a file, a loader and its parameters   *)
(* are drawn, then the loader runs                                         *)

MaxTentativas == 5

\* The frame of the drawn file
QuadroExemplo ==
  [colunas |-> <<"NU_NOTIFIC", "CS_SEXO">>,
   tipos |-> [NU_NOTIFIC |-> "float64", CS_SEXO |-> "float64"],
   linhas |-> << [NU_NOTIFIC |-> <<"7">>, CS_SEXO |-> <<"1">>] >>]

\* Every configuration of either loader
TodasConfigs ==
  {configs[k] : k \in DOMAIN configs} \cup {configs_dados[k] : k \in DOMAIN configs_dados}

\* The drawn files: a missing file parses under no configuration
ArquivosCarga ==
  { [existe |-> e, ext |-> x, le |-> l, quadro |-> QuadroExemplo] :
      e \in BOOLEAN, x \in {"csv", "dbf", "xlsx", "txt"},
      l \in {s \in SUBSET TodasConfigs : TRUE} }

CargaInit ==
  /\ cg_loader \in {"robusto", "dados"}
  /\ cg_arq \in {a \in ArquivosCarga :
                   /\ ~a.existe => a.le = {}
                   /\ a.ext # "csv" => a.le = {}
                   /\ cg_loader = "robusto" =>
                        a.ext = "csv" /\ a.le \subseteq {configs[k] : k \in DOMAIN configs}
                   /\ cg_loader = "dados" =>
                        a.le \subseteq {configs_dados[k] : k \in DOMAIN configs_dados}}
  /\ cg_tentativas \in IF cg_loader = "robusto" THEN 0..MaxTentativas
                       ELSE {tentativas_padrao}
  /\ cg_dbfread \in IF cg_loader = "dados" /\ cg_arq.ext = "dbf" THEN BOOLEAN ELSE {TRUE}
  /\ cg_configs = <<>>
  /\ cg_i = 1
  /\ cg_log = <<>>
  /\ cg_pc = "inicio"
  /\ cg_ret = RetPendente

CargaNext == CargaInicio \/ DadosInicio \/ CargaTentar \/ CargaEsgotar

\* The loader's variables while no loader runs
CargaParada ==
  /\ cg_loader = "robusto"
  /\ cg_arq = [existe |-> FALSE, ext |-> "csv", le |-> {}, quadro |-> SemQuadro]
  /\ cg_tentativas = tentativas_padrao
  /\ cg_dbfread = TRUE
  /\ cg_configs = <<>>
  /\ cg_i = 1
  /\ cg_log = <<>>
  /\ cg_pc = "parado"
  /\ cg_ret = RetPendente

-----------------------------------------------------------------------------
(* unificacao.py: the script (load loop, concat, save)                     *)

RECURSIVE uniao_colunas(_, _)
\* The column names of frames k.. of dfs, each once, in order of appearance
uniao_colunas(dfs, k) ==
  IF k > Len(dfs) THEN <<>>
  ELSE LET resto == uniao_colunas(dfs, k + 1)
           aqui == dfs[k].colunas
       IN aqui \o SelectSeq(resto, LAMBDA c : \A j \in DOMAIN aqui : aqui[j] # c)

RECURSIVE todas_linhas(_, _, _)
\* The rows of frames k.. of dfs, in order, each over the columns nomes: a
\* column the row's frame does not have is null
todas_linhas(dfs, nomes, k) ==
  IF k > Len(dfs) THEN <<>>
  ELSE [i \in DOMAIN dfs[k].linhas |->
          [c \in nomes |-> IF c \in DOMAIN dfs[k].linhas[i]
                           THEN dfs[k].linhas[i][c] ELSE Null]]
       \o todas_linhas(dfs, nomes, k + 1)

\* Mutant of concat: a row equal to an earlier row is dropped
concat_sem_duplicatas(dfs) ==
  LET cs == uniao_colunas(dfs, 1)
      nomes == {cs[k] : k \in DOMAIN cs}
      ls == todas_linhas(dfs, nomes, 1)
  IN [colunas |-> cs,
      tipos |-> [c \in nomes |-> "object"],
      linhas |-> SelectIdx(ls, {i \in DOMAIN ls : \A j \in 1..(i - 1) : ls[j] # ls[i]}, 1)]

\* pd.concat(dataframes, ignore_index=True): the union of the columns, the
\* rows of every frame one after the other
concat(dfs) ==
  LET cs == uniao_colunas(dfs, 1)
      nomes == {cs[k] : k \in DOMAIN cs}
  IN [colunas |-> cs,
      tipos |-> [c \in nomes |->
                   IF \E k \in DOMAIN dfs :
                        c \in DOMAIN dfs[k].tipos /\ dfs[k].tipos[c] = "object"
                   THEN "object" ELSE "float64"],
      linhas |-> todas_linhas(dfs, nomes, 1)]

\* A file that was not written
SemArquivo == [existe |-> FALSE, quadro |-> SemQuadro]

\* for arquivo in arquivos_csv: df = carregar_csv_robusto(arquivo)
ChamarCarga ==
  /\ un_pc = "loop" /\ un_k <= Len(un_arquivos)
  /\ un_pc' = "carregando"
  /\ cg_loader' = "robusto"
  /\ cg_arq' = un_arquivos[un_k]
  /\ cg_tentativas' = tentativas_padrao
  /\ cg_configs' = <<>>
  /\ cg_i' = 1
  /\ cg_log' = <<>>
  /\ cg_pc' = "inicio"
  /\ cg_ret' = RetPendente
  /\ UNCHANGED cg_dbfread
  /\ UNCHANGED <<un_arquivos, un_k, un_dataframes, un_carregados, un_disco_ok,
                 un_saida, un_status>>
  /\ UNCHANGED restoUnif

\* if df is not None: dataframes.append(df); else the file is skipped
ReceberCarga ==
  /\ un_pc = "carregando" /\ cg_pc = "retornou"
  /\ IF cg_ret.tipo = "df"
     THEN /\ un_dataframes' = Append(un_dataframes, cg_ret.df)
          /\ un_carregados' = un_carregados \cup {un_k}
     ELSE UNCHANGED <<un_dataframes, un_carregados>>
  /\ un_k' = un_k + 1
  /\ un_pc' = "loop"
  /\ cg_pc' = "parado"
  /\ UNCHANGED <<cg_loader, cg_arq, cg_tentativas, cg_dbfread, cg_configs, cg_i,
                 cg_log, cg_ret>>
  /\ UNCHANGED <<un_arquivos, un_disco_ok, un_saida, un_status>>
  /\ UNCHANGED restoUnif

\* A variant that gives up as soon as one file of the list did not load
sem_dataframes_se_faltou(dataframes) == Len(dataframes) < Len(un_arquivos)

\* len(dataframes) == 0
sem_dataframes(dataframes) == Len(dataframes) = 0

\* if len(dataframes) == 0: sys.exit(1)
SemArquivos ==
  /\ un_pc = "loop" /\ un_k > Len(un_arquivos)
  /\ sem_dataframes(un_dataframes)
  /\ un_status' = 1
  /\ un_pc' = "fim"
  /\ UNCHANGED <<un_arquivos, un_k, un_dataframes, un_carregados, un_disco_ok, un_saida>>
  /\ UNCHANGED varsCarga
  /\ UNCHANGED restoUnif

\* else: df_unificado = pd.concat(...); df_unificado.to_csv(caminho_saida);
\* an exception (here: the file cannot be written) ends in sys.exit(1)
Unificar ==
  /\ un_pc = "loop" /\ un_k > Len(un_arquivos)
  /\ ~sem_dataframes(un_dataframes)
  /\ un_disco_ok' \in BOOLEAN
  /\ IF un_disco_ok'
     THEN /\ un_saida' = [existe |-> TRUE, quadro |-> concat(un_dataframes)]
          /\ un_status' = 0
     ELSE /\ un_status' = 1
          /\ UNCHANGED un_saida
  /\ un_pc' = "fim"
  /\ UNCHANGED <<un_arquivos, un_k, un_dataframes, un_carregados>>
  /\ UNCHANGED varsCarga
  /\ UNCHANGED restoUnif

-----------------------------------------------------------------------------
(* Specification of the unification script: the files behind the paths of  *)
(* arquivos_csv are drawn, then the script runs                            *)

MaxArquivos == 4

\* A frame of a drawn file: every cell of row i is vs[i]
QuadroDe(cs, vs) ==
  [colunas |-> cs,
   tipos |-> [c \in {cs[k] : k \in DOMAIN cs} |-> "float64"],
   linhas |-> [i \in DOMAIN vs |-> [c \in {cs[k] : k \in DOMAIN cs} |-> vs[i]]]]

\* The drawn files: missing; unreadable; readable at once, with a column that
\* is not wanted and the same row twice; readable under the second
\* configuration, its columns in another order than colunas_para_manter;
\* readable under the fourth only; readable and without rows
ArquivosUnif ==
  { [existe |-> FALSE, ext |-> "csv", le |-> {}, quadro |-> SemQuadro],
    [existe |-> TRUE, ext |-> "csv", le |-> {}, quadro |-> SemQuadro],
    [existe |-> TRUE, ext |-> "csv", le |-> {configs[k] : k \in DOMAIN configs},
     quadro |-> QuadroDe(<<"NU_NOTIFIC", "CS_SEXO">>, << <<"1">>, <<"1">> >>)],
    [existe |-> TRUE, ext |-> "csv", le |-> {configs[2], configs[4]},
     quadro |-> QuadroDe(<<"CS_SEXO", "DT_NOTIFIC">>, << <<"1">>, <<"2">> >>)],
    [existe |-> TRUE, ext |-> "csv", le |-> {configs[4]},
     quadro |-> QuadroDe(<<"CS_SEXO">>, << <<"1">> >>)],
    [existe |-> TRUE, ext |-> "csv", le |-> {configs[k] : k \in DOMAIN configs},
     quadro |-> QuadroDe(<<"CS_SEXO">>, <<>>)] }

UnifInit ==
  /\ un_arquivos \in UNION { [1..n -> ArquivosUnif] : n \in 1..MaxArquivos }
  /\ un_k = 1
  /\ un_pc = "loop"
  /\ un_dataframes = <<>>
  /\ un_carregados = {}
  /\ un_disco_ok = TRUE
  /\ un_saida = SemArquivo
  /\ un_status = 0

UnifNext ==
  \/ ChamarCarga \/ CargaInicio \/ CargaTentar \/ CargaEsgotar \/ ReceberCarga
  \/ SemArquivos \/ Unificar

\* The script's variables while another script runs
UnifParado ==
  /\ un_arquivos = <<>>
  /\ un_k = 1
  /\ un_pc = "parado"
  /\ un_dataframes = <<>>
  /\ un_carregados = {}
  /\ un_disco_ok = TRUE
  /\ un_saida = SemArquivo
  /\ un_status = 0

-----------------------------------------------------------------------------
(* formatar_dicionario.py: the regular expressions                         *)

Digitos == {"0","1","2","3","4","5","6","7","8","9"}

\* The character class of padrao_secao: [A-ZÇÀÁÂÃÉÊÍÓÔÕÚÜ\s\-0-9]
SecaoChars ==
  {"A","B","C","D","E","F","G","H","I","J","K","L","M","N","O","P","Q","R","S","T",
   "U","V","W","X","Y","Z","Ç","À","Á","Â","Ã","É","Ê","Í","Ó","Ô","Õ","Ú","Ü","-"}
  \cup Digitos \cup {" ", "\t", "\n", "\r"}

\* padrao_secao.match(s): ^[...]+$
padrao_secao(s) == s # <<>> /\ \A k \in DOMAIN s : s[k] \in SecaoChars

RECURSIVE conta_digitos(_, _)
\* The length of the run of digits of s that starts at position t
conta_digitos(s, t) ==
  IF t <= Len(s) /\ s[t] \in Digitos THEN 1 + conta_digitos(s, t + 1) ELSE 0

\* The text p stands in s at position t
comeca_em(s, t, p) == t + Len(p) - 1 <= Len(s) /\ SubSeq(s, t, t + Len(p) - 1) = p

\* \(\d+\) at position t of s: the length matched, 0 for no match
parenteses(s, t) ==
  LET n == conta_digitos(s, t + 1)
  IN IF /\ t <= Len(s) /\ s[t] = "("
        /\ n >= 1
        /\ t + n + 1 <= Len(s) /\ s[t + n + 1] = ")"
     THEN n + 2 ELSE 0

\* The alternatives of the type group of padrao_campo, in the order of the
\* regular expression
TiposCampo == <<"Varchar2?\\(\\d+\\)", "Date", "Number\\(\\d+\\)", "Número", "Varchar2?", "Tabela">>

\* One alternative at position t of s: the length matched, 0 for no match
casa_tipo(s, t, alt) ==
  CASE alt = "Varchar2?\\(\\d+\\)" ->
         IF comeca_em(s, t, <<"V","a","r","c","h","a","r","2">>) /\ parenteses(s, t + 8) > 0
         THEN 8 + parenteses(s, t + 8)
         ELSE IF comeca_em(s, t, <<"V","a","r","c","h","a","r">>) /\ parenteses(s, t + 7) > 0
              THEN 7 + parenteses(s, t + 7)
              ELSE 0
    [] alt = "Date" -> IF comeca_em(s, t, <<"D","a","t","e">>) THEN 4 ELSE 0
    [] alt = "Number\\(\\d+\\)" ->
         IF comeca_em(s, t, <<"N","u","m","b","e","r">>) /\ parenteses(s, t + 6) > 0
         THEN 6 + parenteses(s, t + 6)
         ELSE 0
    [] alt = "Número" -> IF comeca_em(s, t, <<"N","ú","m","e","r","o">>) THEN 6 ELSE 0
    [] alt = "Varchar2?" ->
         IF comeca_em(s, t, <<"V","a","r","c","h","a","r","2">>) THEN 8
         ELSE IF comeca_em(s, t, <<"V","a","r","c","h","a","r">>) THEN 7 ELSE 0
    [] alt = "Tabela" -> IF comeca_em(s, t, <<"T","a","b","e","l","a">>) THEN 6 ELSE 0

\* The first of two alternatives that matches: n when it is a match, else m
senao(n, m) == IF n > 0 THEN n ELSE m

RECURSIVE primeiro_tipo(_, _, _, _)
\* The first alternative of alts, from number k on, that matches at
\* position t of s: the length matched, 0 when none does
primeiro_tipo(s, t, alts, k) ==
  IF k > Len(alts) THEN 0
  ELSE senao(casa_tipo(s, t, alts[k]), primeiro_tipo(s, t, alts, k + 1))

RECURSIVE fim_espacos(_, _)
\* The position after the run of whitespace of s that starts at q (\s+)
fim_espacos(s, q) ==
  IF q <= Len(s) /\ IsSpace(s[q]) THEN fim_espacos(s, q + 1) ELSE q

\* re.match(r'^[0-9]+[\-\.]', s)
parece_campo(s) ==
  LET d == conta_digitos(s, 1)
  IN d >= 1 /\ d + 1 <= Len(s) /\ s[d + 1] \in {"-", "."}

\* No match
SemMatch == [ok |-> FALSE, g1 |-> <<>>, g2 |-> <<>>, fim |-> 0]

\* The positions of s where group 1 of ^([0-9]+[\-\.].*?)\s+(alts) may end:
\* whitespace and then a type follow, and no line break comes before
cortes(s, alts) ==
  {q \in (conta_digitos(s, 1) + 2)..Len(s) :
     /\ IsSpace(s[q])
     /\ \A m \in (conta_digitos(s, 1) + 2)..(q - 1) : s[m] # "\n"
     /\ primeiro_tipo(s, fim_espacos(s, q), alts, 1) > 0}

\* The least of a non-empty set of positions
menor(cand) == CHOOSE x \in cand : \A y \in cand : x <= y

\* The match whose group 1 ends before q and whose type, n long, starts at t
grupos(s, q, t, n) ==
  [ok |-> TRUE, g1 |-> SubSeq(s, 1, q - 1),
   g2 |-> SubSeq(s, t, t + n - 1), fim |-> t + n - 1]

\* The match whose group 1 ends before q: the whitespace runs up to the type
casa_em(s, alts, q, t) == grupos(s, q, t, primeiro_tipo(s, t, alts, 1))

\* The match for the positions cand where group 1 may end: the group is the
\* shortest (.*? is not greedy)
casa_menor(s, alts, cand) ==
  IF parece_campo(s) /\ cand # {}
  THEN casa_em(s, alts, menor(cand), fim_espacos(s, menor(cand)))
  ELSE SemMatch

\* ^([0-9]+[\-\.].*?)\s+(alts) matched at the start of s: group 1, group 2
\* (the type) and fim, the position of the last character matched
casa_campo(s, alts) == casa_menor(s, alts, cortes(s, alts))

padrao_campo(s) == casa_campo(s, TiposCampo)

padrao_campo_numerico(s) == casa_campo(s, <<"Número">>)

padrao_campo_tabela(s) == casa_campo(s, <<"Tabela">>)

\* The separators of the re.split of a description
palavras_chave ==
  << <<"D","e","s","c","r","i","ç","ã","o",":">>,
     <<"C","a","r","a","c","t","e","r","í","s","t","i","c","a","s"," ","D","B","F",":">>,
     <<"C","a","m","p","o"," ","O","b","r","i","g","a","t","ó","r","i","o">>,
     <<"C","a","m","p","o"," ","E","s","s","e","n","c","i","a","l">>,
     <<"C","a","m","p","o"," ","I","n","t","e","r","n","o">>,
     <<"C","a","m","p","o"," ","O","p","c","i","o","n","a","l">> >>

RECURSIVE re_split(_, _, _)
\* re.split(r'(Descrição:|...)', s) from position t on, ini being where the
\* current piece starts: text, separator, text, ..., text
re_split(s, ini, t) ==
  IF t > Len(s) THEN << SubSeq(s, ini, Len(s)) >>
  ELSE IF \E k \in DOMAIN palavras_chave : comeca_em(s, t, palavras_chave[k])
       THEN LET k == CHOOSE x \in DOMAIN palavras_chave :
                       /\ comeca_em(s, t, palavras_chave[x])
                       /\ \A y \in 1..(x - 1) : ~comeca_em(s, t, palavras_chave[y])
                f == t + Len(palavras_chave[k])
            IN << SubSeq(s, ini, t - 1), palavras_chave[k] >> \o re_split(s, f, f)
       ELSE re_split(s, ini, t + 1)

RECURSIVE split_linhas(_)
\* conteudo.split('\n')
split_linhas(s) ==
  IF \A k \in DOMAIN s : s[k] # "\n" THEN << s >>
  ELSE LET p == CHOOSE k \in DOMAIN s : s[k] = "\n" /\ \A m \in 1..(k - 1) : s[m] # "\n"
       IN << SubSeq(s, 1, p - 1) >> \o split_linhas(SubSeq(s, p + 1, Len(s)))

RECURSIVE join(_, _)
\* sep.join(partes)
join(sep, partes) ==
  IF partes = <<>> THEN <<>>
  ELSE IF Len(partes) = 1 THEN partes[1]
       ELSE partes[1] \o sep \o join(sep, Tail(partes))

-----------------------------------------------------------------------------
(* formatar_dicionario.py: formatar_dicionario, the main loop.  Positions  *)
(* in linhas count from 1 (the source counts from 0).                      *)

\* The match of Case 3 on linha_atual: padrao_campo, else
\* padrao_campo_numerico, else padrao_campo_tabela
casa_cabecalho(linha_atual) ==
  IF padrao_campo(linha_atual).ok THEN padrao_campo(linha_atual)
  ELSE IF padrao_campo_numerico(linha_atual).ok THEN padrao_campo_numerico(linha_atual)
       ELSE padrao_campo_tabela(linha_atual)

\* The inner loop of the structured format stops at line j: a field
\* header, a section header, or an empty line before a line that starts
\* like a field
para_estruturado(linhas, j) ==
  LET linha_j == str_strip(linhas[j])
  IN \/ padrao_campo(linha_j).ok
     \/ padrao_campo_numerico(linha_j).ok
     \/ padrao_campo_tabela(linha_j).ok
     \/ padrao_secao(linha_j)
     \/ /\ linha_j = <<>>
        /\ j + 1 <= Len(linhas)
        /\ parece_campo(str_strip(linhas[j + 1]))

\* The inner loop of the Markdown format stops at line j
para_markdown(linhas, j) ==
  \/ padrao_campo(str_strip(linhas[j])).ok
  \/ padrao_secao(str_strip(linhas[j]))

\* The inner loop of the plain text format stops at line j
para_texto(linhas, j) ==
  \/ padrao_campo(str_strip(linhas[j])).ok
  \/ padrao_campo_numerico(str_strip(linhas[j])).ok
  \/ padrao_campo_tabela(str_strip(linhas[j])).ok
  \/ padrao_secao(str_strip(linhas[j]))

para(formato, linhas, j) ==
  CASE formato = "estruturado" -> para_estruturado(linhas, j)
    [] formato = "markdown" -> para_markdown(linhas, j)
    [] OTHER -> para_texto(linhas, j)

\* Mutant of fim_bloco: the inner loop takes no line
fim_bloco_imediato(formato, linhas, j) == j

RECURSIVE fim_bloco(_, _, _)
\* The value of j when the inner loop, started at j, ends
fim_bloco(formato, linhas, j) ==
  IF j > Len(linhas) \/ para(formato, linhas, j) THEN j
  ELSE fim_bloco(formato, linhas, j + 1)

RECURSIVE juntar(_, _, _, _)
\* The text collected by the inner loop over lines a..b-1, begun with acc:
\* each line that is not empty is appended, trimmed, after one blank
juntar(linhas, a, b, acc) ==
  IF a >= b THEN acc
  ELSE juntar(linhas, a + 1, b,
              IF str_strip(linhas[a]) # <<>>
              THEN acc \o <<" ">> \o str_strip(linhas[a]) ELSE acc)

RECURSIVE partes_estruturado(_, _)
\* The lines added to a structured field for the pieces k, k+2, ... of partes
partes_estruturado(partes, k) ==
  IF k > Len(partes) THEN <<>>
  ELSE LET prefixo == IF k > 1 THEN partes[k - 1] ELSE <<>>
           texto == str_strip(partes[k])
       IN (IF prefixo # <<>> THEN <<"\n"," "," "," "," ">> \o prefixo \o <<" ">> \o texto
           ELSE IF texto # <<>> THEN <<"\n"," "," "," "," ">> \o texto
           ELSE <<>>)
          \o partes_estruturado(partes, k + 2)

RECURSIVE partes_markdown(_, _)
\* The paragraphs added to a Markdown field for the pieces k, k+2, ...
partes_markdown(partes, k) ==
  IF k > Len(partes) THEN <<>>
  ELSE LET prefixo == IF k > 1 THEN partes[k - 1] ELSE <<>>
           texto == str_strip(partes[k])
       IN (IF prefixo # <<>>
           THEN <<"\n","\n","*","*">> \o str_strip(prefixo) \o <<"*","*"," ">> \o texto
           ELSE IF texto # <<>> THEN <<"\n","\n">> \o texto
           ELSE <<>>)
          \o partes_markdown(partes, k + 2)

\* campo_formatado of the structured format, for the header at i and the
\* inner loop ended at j
campo_estruturado(linhas, i, j) ==
  LET linha_atual == str_rstrip(linhas[i])
      match == casa_cabecalho(linha_atual)
      resto_linha == str_strip(SubSeq(linha_atual, match.fim + 1, Len(linha_atual)))
      descricao_campo == juntar(linhas, i + 1, j, resto_linha)
  IN str_strip(match.g1) \o <<"\n"," "," "," "," ","T","i","p","o",":"," ">> \o str_strip(match.g2)
     \o (IF descricao_campo # <<>>
         THEN partes_estruturado(re_split(descricao_campo, 1, 1), 1) ELSE <<>>)

\* campo_formatado of the Markdown format
campo_markdown(linhas, i, j) ==
  LET linha_atual == str_rstrip(linhas[i])
      match == casa_cabecalho(linha_atual)
      resto_linha == str_strip(SubSeq(linha_atual, match.fim + 1, Len(linha_atual)))
      descricao_campo == juntar(linhas, i + 1, j, resto_linha)
  IN <<"#","#","#"," ">> \o str_strip(match.g1) \o <<"\n","\n","*","*","T","i","p","o",":","*","*"," ">> \o str_strip(match.g2)
     \o (IF descricao_campo # <<>>
         THEN partes_markdown(re_split(descricao_campo, 1, 1), 1) ELSE <<>>)

\* texto_completo of the plain text format
campo_texto(linhas, i, j) == juntar(linhas, i + 1, j, str_rstrip(linhas[i]))

\* Mutant of proximo_i: the scan resumes after the line that ended the block
proximo_i_salta(i, j) == j + 1

\* A variant that stays on the header of a field block of one line
proximo_i_parado(i, j) == IF j > i + 1 THEN j ELSE i

\* i = j if j > i + 1 else i + 1
proximo_i(i, j) == IF j > i + 1 THEN j ELSE i + 1

\* What went into one entry of linhas_processadas: the case of the main
\* loop that made it and the input lines whose text it holds, in order
Origem(caso, ls) == [caso |-> caso, linhas |-> ls]

\* The lines a..b-1 that are not empty when trimmed, in order
nao_vazias(linhas, a, b) ==
  SelectSeq([k \in 1..(IF b > a THEN b - a ELSE 0) |-> a + k - 1],
            LAMBDA m : str_strip(linhas[m]) # <<>>)

\* The file is missing (return False) or is read and split into lines
FmLer ==
  /\ fm_pc = "inicio"
  /\ IF ~fm_existe
     THEN /\ fm_ret' = "False"
          /\ fm_pc' = "fim"
          /\ UNCHANGED fm_linhas
     ELSE /\ fm_linhas' = split_linhas(fm_conteudo)
          /\ fm_pc' = "laco"
          /\ UNCHANGED fm_ret
  /\ fm_i' = 1
  /\ UNCHANGED <<fm_existe, fm_conteudo, fm_formato, fm_processadas, fm_origem, fm_saida,
                 fm_voltas>>
  /\ UNCHANGED restoFmt

\* Case 1: an empty line is kept as a separator
LinhaVazia ==
  /\ fm_pc = "laco" /\ fm_i <= Len(fm_linhas)
  /\ str_strip(str_rstrip(fm_linhas[fm_i])) = <<>>
  /\ fm_processadas' = Append(fm_processadas, <<>>)
  /\ fm_origem' = Append(fm_origem, Origem("vazia", <<>>))
  /\ fm_i' = fm_i + 1
  /\ fm_voltas' = fm_voltas + 1
  /\ UNCHANGED <<fm_existe, fm_conteudo, fm_formato, fm_linhas, fm_pc, fm_saida, fm_ret>>
  /\ UNCHANGED restoFmt

\* Case 2: a section header, set between empty lines
LinhaSecao ==
  /\ fm_pc = "laco" /\ fm_i <= Len(fm_linhas)
  /\ LET linha_atual == str_rstrip(fm_linhas[fm_i])
         antes == fm_processadas # <<>> /\ fm_processadas[Len(fm_processadas)] # <<>>
     IN /\ str_strip(linha_atual) # <<>>
        /\ padrao_secao(str_strip(linha_atual))
        /\ fm_processadas' =
             (IF antes THEN Append(fm_processadas, <<>>) ELSE fm_processadas)
             \o << linha_atual, <<>> >>
        /\ fm_origem' =
             (IF antes THEN Append(fm_origem, Origem("vazia", <<>>)) ELSE fm_origem)
             \o << Origem("secao", <<fm_i>>), Origem("vazia", <<>>) >>
  /\ fm_i' = fm_i + 1
  /\ fm_voltas' = fm_voltas + 1
  /\ UNCHANGED <<fm_existe, fm_conteudo, fm_formato, fm_linhas, fm_pc, fm_saida, fm_ret>>
  /\ UNCHANGED restoFmt

\* Case 3 is up: the line is neither empty nor a section header and
\* matches a field pattern
EhCampo(i) ==
  LET linha_atual == str_rstrip(fm_linhas[i])
  IN /\ str_strip(linha_atual) # <<>>
     /\ ~padrao_secao(str_strip(linha_atual))
     /\ casa_cabecalho(linha_atual).ok

\* campo_formatado (texto_completo in the plain text format) for the header
\* at i, the inner loop having ended at j
campo_formatado(formato, linhas, i, j) ==
  CASE formato = "estruturado" -> campo_estruturado(linhas, i, j)
    [] formato = "markdown" -> campo_markdown(linhas, i, j)
    [] OTHER -> campo_texto(linhas, i, j)

\* Case 3, one field in the format given
Campo(formato) ==
  /\ fm_pc = "laco" /\ fm_i <= Len(fm_linhas)
  /\ fm_formato = formato
  /\ EhCampo(fm_i)
  /\ fm_processadas' =
       Append(fm_processadas,
              campo_formatado(formato, fm_linhas, fm_i,
                              fim_bloco(formato, fm_linhas, fm_i + 1)))
  /\ fm_origem' =
       Append(fm_origem,
              Origem("campo",
                     <<fm_i>> \o nao_vazias(fm_linhas, fm_i + 1,
                                           fim_bloco(formato, fm_linhas, fm_i + 1))))
  /\ fm_i' = proximo_i(fm_i, fim_bloco(formato, fm_linhas, fm_i + 1))
  /\ fm_voltas' = fm_voltas + 1
  /\ UNCHANGED <<fm_existe, fm_conteudo, fm_formato, fm_linhas, fm_pc, fm_saida, fm_ret>>
  /\ UNCHANGED restoFmt

\* Case 3, formato == FormatoSaida.ESTRUTURADO
CampoEstruturado == fm_formato = "estruturado" /\ Campo("estruturado")

\* Case 3, formato == FormatoSaida.MARKDOWN
CampoMarkdown == fm_formato = "markdown" /\ Campo("markdown")

\* Case 3, the plain text format
CampoTexto == fm_formato = "texto" /\ Campo("texto")

\* Case 4: any other line is kept as it is
OutraLinha ==
  /\ fm_pc = "laco" /\ fm_i <= Len(fm_linhas)
  /\ LET linha_atual == str_rstrip(fm_linhas[fm_i])
     IN /\ str_strip(linha_atual) # <<>>
        /\ ~padrao_secao(str_strip(linha_atual))
        /\ ~casa_cabecalho(linha_atual).ok
        /\ fm_processadas' = Append(fm_processadas, linha_atual)
        /\ fm_origem' = Append(fm_origem, Origem("outra", <<fm_i>>))
  /\ fm_i' = fm_i + 1
  /\ fm_voltas' = fm_voltas + 1
  /\ UNCHANGED <<fm_existe, fm_conteudo, fm_formato, fm_linhas, fm_pc, fm_saida, fm_ret>>
  /\ UNCHANGED restoFmt

\* After the loop the result is written and True returned; when writing
\* raises, False is returned
Gravar ==
  /\ fm_pc = "laco" /\ fm_i > Len(fm_linhas)
  /\ \E ok \in BOOLEAN :
       IF ok
       THEN /\ fm_saida' = [existe |-> TRUE, conteudo |-> join(<<"\n">>, fm_processadas)]
            /\ fm_ret' = "True"
       ELSE /\ fm_ret' = "False"
            /\ UNCHANGED fm_saida
  /\ fm_pc' = "fim"
  /\ UNCHANGED <<fm_existe, fm_conteudo, fm_formato, fm_linhas, fm_i, fm_processadas, fm_origem,
                 fm_voltas>>
  /\ UNCHANGED restoFmt

-----------------------------------------------------------------------------
(* Specification of the formatter: a dictionary file and an output format  *)
(* are drawn, then formatar_dicionario runs                                *)

MaxLinhasDic == 4

\* The lines a drawn dictionary is made of: empty, a section header, a
\* field header with a description that holds a separator, a field header
\* with nothing after the type, an indented field header, a line that
\* starts like a field and is none, other text with a trailing blank, a
\* field header whose name is written in capitals
LinhasDic ==
  { <<>>,
    <<"U","F">>,
    <<"1","-","a"," ","D","a","t","e"," ","D","e","s","c","r","i","ç","ã","o",":"," ","x">>,
    <<"2",".","b"," ","T","a","b","e","l","a">>,
    <<" ","3","-","c"," ","D","a","t","e">>,
    <<"9","-","z">>,
    <<"a","b"," ">>,
    <<"4","-","U","F"," ","D","a","t","e">> }

FormatoSaida == {"texto", "markdown", "estruturado"}

SemSaida == [existe |-> FALSE, conteudo |-> <<>>]

FmtInit ==
  /\ fm_existe \in BOOLEAN
  /\ fm_conteudo \in IF fm_existe
                     THEN { join(<<"\n">>, ls) :
                              ls \in UNION { [1..n -> LinhasDic] : n \in 1..MaxLinhasDic } }
                     ELSE { <<>> }
  /\ fm_formato \in IF fm_existe THEN FormatoSaida ELSE {"estruturado"}
  /\ fm_linhas = <<>>
  /\ fm_i = 1
  /\ fm_processadas = <<>>
  /\ fm_origem = <<>>
  /\ fm_pc = "inicio"
  /\ fm_saida = SemSaida
  /\ fm_ret = "pendente"
  /\ fm_voltas = 0

FmtNext ==
  \/ FmLer \/ LinhaVazia \/ LinhaSecao
  \/ CampoEstruturado \/ CampoMarkdown \/ CampoTexto
  \/ OutraLinha \/ Gravar

\* The formatter's variables while it is not running
FmtParado ==
  /\ fm_existe = FALSE
  /\ fm_conteudo = <<>>
  /\ fm_formato = "estruturado"
  /\ fm_linhas = <<>>
  /\ fm_i = 1
  /\ fm_processadas = <<>>
  /\ fm_origem = <<>>
  /\ fm_pc = "parado"
  /\ fm_saida = SemSaida
  /\ fm_ret = "pendente"
  /\ fm_voltas = 0

-----------------------------------------------------------------------------
(* filtrar_dados_srag.py.  A CSV file is taken as pd.read_csv sees it: a   *)
(* frame whose cells are the texts of the file (an empty cell is Null); a  *)
(* column read as numbers has dtype float64, any other object.             *)

DigitosSeq == <<"0","1","2","3","4","5","6","7","8","9">>

RECURSIVE inteiro(_)
\* The number a run of digits denotes
inteiro(ds) ==
  IF ds = <<>> THEN 0
  ELSE 10 * inteiro(SubSeq(ds, 1, Len(ds) - 1))
       + (CHOOSE d \in 0..9 : DigitosSeq[d + 1] = ds[Len(ds)])

\* The number a numeric cell [-]digits[.digits] denotes: its sign, its
\* integer part, and whether its fraction is more than zero
numero(x) ==
  LET negativo == x[1] = "-"
      y == IF negativo THEN Tail(x) ELSE x
      n == conta_digitos(y, 1)
  IN [negativo |-> negativo,
      inteiro |-> inteiro(SubSeq(y, 1, n)),
      fracao |-> \E k \in (n + 2)..Len(y) : y[k] \in Digitos \ {"0"}]

\* a > n, for a number a and a natural n
maior(a, n) ==
  /\ ~a.negativo
  /\ a.inteiro > n \/ (a.inteiro = n /\ a.fracao)

\* The threshold of the first filter
limite_tempo_uti == 160

\* df['TEMPO_UTI'] > 160 raises TypeError: a text cell is compared with a number
tempo_uti_levanta(f) ==
  /\ f.tipos["TEMPO_UTI"] = "object"
  /\ \E i \in DOMAIN f.linhas : notnull(f.linhas[i]["TEMPO_UTI"])

\* Mutant of filtro_tempo_uti: the rows at the threshold are removed too
filtro_tempo_uti_inclusivo(f) ==
  [f EXCEPT !.linhas =
     SelectIdx(f.linhas,
               {i \in DOMAIN f.linhas :
                  ~(/\ notnull(f.linhas[i]["TEMPO_UTI"])
                    /\ maior(numero(f.linhas[i]["TEMPO_UTI"]), limite_tempo_uti - 1))},
               1)]

\* df[~(df['TEMPO_UTI'] > 160)]: a comparison with a null is False
filtro_tempo_uti(f) ==
  [f EXCEPT !.linhas =
     SelectIdx(f.linhas,
               {i \in DOMAIN f.linhas :
                  ~(/\ notnull(f.linhas[i]["TEMPO_UTI"])
                    /\ maior(numero(f.linhas[i]["TEMPO_UTI"]), limite_tempo_uti))},
               1)]

\* df[~df['EVOLUCAO'].isna()]
filtro_evolucao(f) ==
  [f EXCEPT !.linhas =
     SelectIdx(f.linhas,
               {i \in DOMAIN f.linhas : ~(f.linhas[i]["EVOLUCAO"] = Null)}, 1)]

\* 'TEMPO_UTI' in df.columns
tem_coluna(f, c) == \E k \in DOMAIN f.colunas : f.colunas[k] = c

\* A file: whether it exists, whether pd.read_csv can read it, its frame
Arquivo(q) == [existe |-> TRUE, legivel |-> TRUE, quadro |-> q]
ArquivoIlegivel == [existe |-> TRUE, legivel |-> FALSE, quadro |-> SemQuadro]
ArquivoAusente == [existe |-> FALSE, legivel |-> FALSE, quadro |-> SemQuadro]

\* main, up to the call: a missing input file returns 1; the output path is
\* the input path under --sobrescrever
FlMain ==
  /\ fl_pc = "main"
  /\ IF ~fl_fs[fl_entrada].existe
     THEN /\ fl_status' = 1
          /\ fl_pc' = "fim"
          /\ UNCHANGED fl_saida
     ELSE /\ fl_saida' = IF fl_sobrescrever THEN fl_entrada ELSE fl_saida
          /\ fl_pc' = "carregar"
          /\ UNCHANGED fl_status
  /\ UNCHANGED <<fl_chamada, fl_sobrescrever, fl_entrada, fl_backup, fl_fs,
                 fl_original, fl_df, fl_erro, fl_ret>>
  /\ UNCHANGED restoFiltrar

\* df = pd.read_csv(arquivo_entrada, ...); an exception returns False
FlCarregar ==
  /\ fl_pc = "carregar"
  /\ IF fl_fs[fl_entrada].existe /\ fl_fs[fl_entrada].legivel
     THEN /\ fl_df' = fl_fs[fl_entrada].quadro
          /\ fl_original' = fl_fs[fl_entrada].quadro
          /\ fl_pc' = "backup"
          /\ UNCHANGED <<fl_erro, fl_ret>>
     ELSE /\ fl_erro' = "leitura"
          /\ fl_ret' = "False"
          /\ fl_pc' = "retornou"
          /\ UNCHANGED <<fl_df, fl_original>>
  /\ UNCHANGED <<fl_chamada, fl_sobrescrever, fl_entrada, fl_saida, fl_backup, fl_fs,
                 fl_status>>
  /\ UNCHANGED restoFiltrar

\* backup_path = f"{arquivo_entrada}.bak"
backup_path(arquivo_entrada) == arquivo_entrada \o ".bak"

\* Mutant of faz_backup: no backup is ever made
faz_backup_nunca(backup, arquivo_entrada, arquivo_saida) == FALSE

\* if backup and arquivo_entrada == arquivo_saida
faz_backup(backup, arquivo_entrada, arquivo_saida) ==
  backup /\ arquivo_entrada = arquivo_saida

\* if backup and arquivo_entrada == arquivo_saida: df.to_csv(backup_path);
\* when writing raises, False is returned
FlBackup ==
  /\ fl_pc = "backup"
  /\ IF faz_backup(fl_backup, fl_entrada, fl_saida)
     THEN \E ok \in BOOLEAN :
            IF ok
            THEN /\ fl_fs' = [fl_fs EXCEPT ![backup_path(fl_entrada)] = Arquivo(fl_df)]
                 /\ fl_pc' = "filtro1"
                 /\ UNCHANGED <<fl_erro, fl_ret>>
            ELSE /\ fl_erro' = "backup"
                 /\ fl_ret' = "False"
                 /\ fl_pc' = "retornou"
                 /\ UNCHANGED fl_fs
     ELSE /\ fl_pc' = "filtro1"
          /\ UNCHANGED <<fl_fs, fl_erro, fl_ret>>
  /\ UNCHANGED <<fl_chamada, fl_sobrescrever, fl_entrada, fl_saida, fl_backup,
                 fl_original, fl_df, fl_status>>
  /\ UNCHANGED restoFiltrar

\* Filter 1, skipped when the column is absent
FlFiltroTempo ==
  /\ fl_pc = "filtro1"
  /\ IF ~tem_coluna(fl_df, "TEMPO_UTI")
     THEN /\ fl_pc' = "filtro2"
          /\ UNCHANGED <<fl_df, fl_erro, fl_ret>>
     ELSE IF tempo_uti_levanta(fl_df)
          THEN /\ fl_erro' = "filtro"
               /\ fl_ret' = "False"
               /\ fl_pc' = "retornou"
               /\ UNCHANGED fl_df
          ELSE /\ fl_df' = filtro_tempo_uti(fl_df)
               /\ fl_pc' = "filtro2"
               /\ UNCHANGED <<fl_erro, fl_ret>>
  /\ UNCHANGED <<fl_chamada, fl_sobrescrever, fl_entrada, fl_saida, fl_backup, fl_fs,
                 fl_original, fl_status>>
  /\ UNCHANGED restoFiltrar

\* Filter 2, skipped when the column is absent
FlFiltroEvolucao ==
  /\ fl_pc = "filtro2"
  /\ fl_df' = IF tem_coluna(fl_df, "EVOLUCAO") THEN filtro_evolucao(fl_df) ELSE fl_df
  /\ fl_pc' = "gravar"
  /\ UNCHANGED <<fl_chamada, fl_sobrescrever, fl_entrada, fl_saida, fl_backup, fl_fs,
                 fl_original, fl_erro, fl_ret, fl_status>>
  /\ UNCHANGED restoFiltrar

\* df.to_csv(arquivo_saida, ...); return True; when writing raises, False
\* is returned
FlGravar ==
  /\ fl_pc = "gravar"
  /\ \E ok \in BOOLEAN :
       IF ok
       THEN /\ fl_fs' = [fl_fs EXCEPT ![fl_saida] = Arquivo(fl_df)]
            /\ fl_ret' = "True"
            /\ UNCHANGED fl_erro
       ELSE /\ fl_erro' = "gravacao"
            /\ fl_ret' = "False"
            /\ UNCHANGED fl_fs
  /\ fl_pc' = "retornou"
  /\ UNCHANGED <<fl_chamada, fl_sobrescrever, fl_entrada, fl_saida, fl_backup,
                 fl_original, fl_df, fl_status>>
  /\ UNCHANGED restoFiltrar

\* Mutant of status_saida: the exit status is 0 whatever the filter returned
status_saida_zero(sucesso) == 0

\* return 0 if sucesso else 1
status_saida(sucesso) == IF sucesso THEN 0 ELSE 1

\* main: sucesso = filtrar_dados_srag(...); return 0 if sucesso else 1
FlMainFim ==
  /\ fl_pc = "retornou" /\ fl_chamada = "main"
  /\ fl_status' = status_saida(fl_ret = "True")
  /\ fl_pc' = "fim"
  /\ UNCHANGED <<fl_chamada, fl_sobrescrever, fl_entrada, fl_saida, fl_backup, fl_fs,
                 fl_original, fl_df, fl_erro, fl_ret>>
  /\ UNCHANGED restoFiltrar

-----------------------------------------------------------------------------
(* Specification of the filter: the files and the way the filter is        *)
(* called (main, or filtrar_dados_srag itself) are drawn, then it runs     *)

MaxRegistros == 3

\* The cells of a numeric TEMPO_UTI column, of a TEMPO_UTI column read as
\* text, and of EVOLUCAO
CelulasTempo == {Null, <<"1","6","0",".","0">>, <<"1","6","0",".","5">>, <<"1","6","1">>}
CelulasTempoTexto == {<<"x">>}
CelulasEvolucao == {Null, <<"C","u","r","a">>}

\* The frames of the drawn input file: TEMPO_UTI absent, numeric or text,
\* EVOLUCAO absent or present, and a column that numbers the records, for
\* up to max records
QuadrosFiltrar(max) ==
  UNION { UNION { UNION {
    { [colunas |-> (IF t # "ausente" THEN <<"TEMPO_UTI">> ELSE <<>>)
                   \o <<"NU_IDADE_N">>
                   \o (IF e THEN <<"EVOLUCAO">> ELSE <<>>),
       tipos |-> [c \in ({"NU_IDADE_N"} \cup (IF t # "ausente" THEN {"TEMPO_UTI"} ELSE {})
                          \cup (IF e THEN {"EVOLUCAO"} ELSE {})) |->
                    IF c = "EVOLUCAO" \/ (c = "TEMPO_UTI" /\ t = "texto")
                    THEN "object" ELSE "float64"],
       linhas |-> [i \in 1..n |->
                     [c \in ({"NU_IDADE_N"} \cup (IF t # "ausente" THEN {"TEMPO_UTI"} ELSE {})
                              \cup (IF e THEN {"EVOLUCAO"} ELSE {})) |->
                        CASE c = "TEMPO_UTI" -> ts[i]
                          [] c = "EVOLUCAO" -> es[i]
                          [] OTHER -> <<DigitosSeq[i + 1]>>]]] :
        ts \in [1..n -> CASE t = "numero" -> CelulasTempo
                          [] t = "texto" -> CelulasTempoTexto
                          [] OTHER -> {Null}],
        es \in [1..n -> IF e THEN CelulasEvolucao ELSE {Null}] } :
      n \in 0..max } :
      e \in BOOLEAN } :
      t \in {"ausente", "numero", "texto"} }

\* The paths
CaminhosFiltrar == {"tratados.csv", "filtrados.csv", "tratados.csv.bak"}

FiltrarInit ==
  /\ fl_chamada \in {"main", "direto"}
  /\ fl_sobrescrever \in IF fl_chamada = "main" THEN BOOLEAN ELSE {FALSE}
  /\ fl_entrada = "tratados.csv"
  /\ fl_saida \in {"tratados.csv", "filtrados.csv"}
  /\ fl_backup \in IF fl_chamada = "main" THEN {TRUE} ELSE BOOLEAN
  /\ fl_fs \in { [p \in CaminhosFiltrar |-> IF p = "tratados.csv" THEN a ELSE ArquivoAusente] :
                   a \in {ArquivoAusente, ArquivoIlegivel}
                         \cup {Arquivo(q) : q \in QuadrosFiltrar(MaxRegistros)} }
  /\ fl_original = SemQuadro
  /\ fl_df = SemQuadro
  /\ fl_pc = IF fl_chamada = "main" THEN "main" ELSE "carregar"
  /\ fl_erro = "nenhum"
  /\ fl_ret = "pendente"
  /\ fl_status = 0

FiltrarNext ==
  \/ FlMain \/ FlCarregar \/ FlBackup \/ FlFiltroTempo \/ FlFiltroEvolucao
  \/ FlGravar \/ FlMainFim

\* The filter's variables while it is not running
FiltrarParado ==
  /\ fl_chamada = "direto"
  /\ fl_sobrescrever = FALSE
  /\ fl_entrada = "tratados.csv"
  /\ fl_saida = "filtrados.csv"
  /\ fl_backup = TRUE
  /\ fl_fs = [p \in CaminhosFiltrar |-> ArquivoAusente]
  /\ fl_original = SemQuadro
  /\ fl_df = SemQuadro
  /\ fl_pc = "parado"
  /\ fl_erro = "nenhum"
  /\ fl_ret = "pendente"
  /\ fl_status = 0

-----------------------------------------------------------------------------
(* processar_srag.py: standardize_column_names                             *)

\* rename_map, in source order: <<old name, new name>>
rename_map ==
  << <<"FAB_COV_1", "FAB_COV1">>,
     <<"FAB_COV_2", "FAB_COV2">>,
     <<"FAB_COVREF", "FAB_COVRF">> >>

\* Mutant of novo_nome: every name is left as it is
novo_nome_igual(c) == c

\* The name rename gives a column: the new name of rename_map for an old
\* name, else the name itself
novo_nome(c) ==
  IF \E k \in DOMAIN rename_map : rename_map[k][1] = c
  THEN rename_map[CHOOSE k \in DOMAIN rename_map : rename_map[k][1] = c][2]
  ELSE c

\* standardize_column_names(df), on anything with a header colunas:
\* cols_to_rename holds the old names that are columns; when there is one,
\* df.rename(columns=cols_to_rename) gives the header with those names
\* replaced where they stand.  Nothing but the header is touched.
standardize_column_names(t) ==
  LET cols_to_rename ==
        {k \in DOMAIN rename_map :
           \E j \in DOMAIN t.colunas : t.colunas[j] = rename_map[k][1]}
  IN IF cols_to_rename # {}
     THEN [t EXCEPT !.colunas = [j \in DOMAIN t.colunas |-> novo_nome(t.colunas[j])]]
     ELSE t

\* A frame under a new header cs (as many names, all different): column k
\* keeps its dtype and its cells under the name cs[k]
com_cabecalho(f, cs) ==
  LET nomes == {cs[k] : k \in DOMAIN cs}
      antigo(c) == f.colunas[CHOOSE k \in DOMAIN cs : cs[k] = c]
  IN [colunas |-> cs,
      tipos |-> [c \in nomes |-> f.tipos[antigo(c)]],
      linhas |-> [i \in DOMAIN f.linhas |-> [c \in nomes |-> f.linhas[i][antigo(c)]]]]

-----------------------------------------------------------------------------
(* processar_srag.py: criar_campos_calculados.  A cell of a datetime       *)
(* column is the text of the date as pandas writes it (YYYY-MM-DD), NaT is *)
(* Null; a cell of a computed column is the text of the number.            *)

\* campos_data
campos_data ==
  <<"DT_NOTIFIC", "DT_SIN_PRI", "DT_NASC", "DT_INTERNA", "DT_ENTUTI",
    "DT_SAIDUTI", "DT_EVOLUCA", "DT_ENCERRA", "DOSE_1_COV", "DOSE_2_COV",
    "DOSE_REF", "DT_RAIOX", "DT_TOMO", "DT_COLETA", "DT_RES_AN",
    "DT_PCR", "DT_CO_SOR", "DT_RES", "DT_DIGITA">>

\* The digits of a natural number
RECURSIVE texto_nat(_)
texto_nat(n) ==
  IF n < 10 THEN <<DigitosSeq[n + 1]>>
  ELSE texto_nat(n \div 10) \o <<DigitosSeq[(n % 10) + 1]>>

RECURSIVE com_zeros(_, _)
\* A run of digits padded with zeros on the left to w characters
com_zeros(ds, w) == IF Len(ds) >= w THEN ds ELSE com_zeros(<<"0">> \o ds, w)

\* The days of month m of year a
dias_do_mes(m, a) ==
  IF m = 2
  THEN (IF (a % 4 = 0 /\ a % 100 # 0) \/ a % 400 = 0 THEN 29 ELSE 28)
  ELSE IF m \in {4, 6, 9, 11} THEN 30 ELSE 31

\* A date a timestamp can hold (pandas keeps 1677-09-21 .. 2262-04-11)
data_valida(d, m, a) ==
  /\ a \in 1678..2261
  /\ m \in 1..12
  /\ d \in 1..dias_do_mes(m, a)

\* A text of the form D/M/YYYY, day first, read as [ok, d, m, a]
ler_data(x) ==
  LET n1 == conta_digitos(x, 1)
      n2 == conta_digitos(x, n1 + 2)
      n3 == conta_digitos(x, n1 + n2 + 3)
  IN IF /\ n1 \in 1..2 /\ n2 \in 1..2 /\ n3 = 4
        /\ Len(x) = n1 + n2 + n3 + 2
        /\ x[n1 + 1] = "/" /\ x[n1 + n2 + 2] = "/"
     THEN [ok |-> TRUE,
           d |-> inteiro(SubSeq(x, 1, n1)),
           m |-> inteiro(SubSeq(x, n1 + 2, n1 + n2 + 1)),
           a |-> inteiro(SubSeq(x, n1 + n2 + 3, Len(x)))]
     ELSE [ok |-> FALSE, d |-> 0, m |-> 0, a |-> 0]

\* A timestamp as pandas writes it: YYYY-MM-DD
texto_data(d, m, a) ==
  com_zeros(texto_nat(a), 4) \o <<"-">> \o com_zeros(texto_nat(m), 2)
  \o <<"-">> \o com_zeros(texto_nat(d), 2)

\* The date read from x, when x holds one
data_lida(l) ==
  IF l.ok /\ data_valida(l.d, l.m, l.a) THEN texto_data(l.d, l.m, l.a) ELSE Null

\* pd.to_datetime(x, errors='coerce', dayfirst=True), one cell of a text
\* column: a null, a text that is no date and a date that does not exist
\* become NaT
to_datetime(x) == IF x = Null THEN Null ELSE data_lida(ler_data(x))

\* The day number of the date d/m/a (days since 1970-01-01)
dia_civil(d, m, a) ==
  LET y == IF m <= 2 THEN a - 1 ELSE a
      era == y \div 400
      yoe == y - era * 400
      mp == (m + 9) % 12
      doy == (153 * mp + 2) \div 5 + d - 1
      doe == yoe * 365 + yoe \div 4 - yoe \div 100 + doy
  IN era * 146097 + doe - 719468

\* The day number of a timestamp cell YYYY-MM-DD
dia_de(t) ==
  dia_civil(inteiro(SubSeq(t, 9, 10)), inteiro(SubSeq(t, 6, 7)), inteiro(SubSeq(t, 1, 4)))

\* The text of an integer n
texto_int(n) == IF n < 0 THEN <<"-">> \o texto_nat(0 - n) ELSE texto_nat(n)

\* A variant that gives the distance in days, without its sign
dt_days_sem_sinal(fim, inicio) ==
  LET nulo(i) == fim[i] = Null \/ inicio[i] = Null
      flutuante == \E i \in DOMAIN fim : nulo(i)
      dist(i) == IF dia_de(fim[i]) >= dia_de(inicio[i])
                 THEN dia_de(fim[i]) - dia_de(inicio[i])
                 ELSE dia_de(inicio[i]) - dia_de(fim[i])
  IN [tipo |-> IF flutuante THEN "float64" ELSE "int64",
      celulas |-> [i \in DOMAIN fim |->
                     IF nulo(i) THEN Null
                     ELSE texto_int(dist(i))
                          \o (IF flutuante THEN <<".","0">> ELSE <<>>)]]

\* (fim - inicio).dt.days, one column: the whole days between the two
\* timestamps of each row, NaN when either is NaT; with a NaN in it the
\* column is float64 (3 is written 3.0), else int64
dt_days(fim, inicio) ==
  LET nulo(i) == fim[i] = Null \/ inicio[i] = Null
      flutuante == \E i \in DOMAIN fim : nulo(i)
  IN [tipo |-> IF flutuante THEN "float64" ELSE "int64",
      celulas |-> [i \in DOMAIN fim |->
                     IF nulo(i) THEN Null
                     ELSE texto_int(dia_de(fim[i]) - dia_de(inicio[i]))
                          \o (IF flutuante THEN <<".","0">> ELSE <<>>)]]

\* round(dias / 365.25, 1), written as a float: tenths of a year, rounded
\* to the nearest (dias * 40 / 1461 is never half-way)
anos_arredondados(dias) ==
  LET abs == IF dias < 0 THEN 0 - dias ELSE dias
      decimos == (abs * 80 + 1461) \div 2922
  IN (IF dias < 0 THEN <<"-">> ELSE <<>>)
     \o texto_nat(decimos \div 10) \o <<".">> \o texto_nat(decimos % 10)

\* ((fim - inicio).dt.days / 365.25).round(1), one column (always float64)
idade_anos(fim, inicio) ==
  [tipo |-> "float64",
   celulas |-> [i \in DOMAIN fim |->
                  IF fim[i] = Null \/ inicio[i] = Null THEN Null
                  ELSE anos_arredondados(dia_de(fim[i]) - dia_de(inicio[i]))]]

\* The cells of column c of a frame, in row order
coluna(f, c) == [i \in DOMAIN f.linhas |-> f.linhas[i][c]]

\* The first loop: every field of campos_data that is a column is converted
converter_datas(f) ==
  LET e_data(c) == \E k \in DOMAIN campos_data : campos_data[k] = c
  IN [f EXCEPT
        !.tipos = [c \in DOMAIN f.tipos |->
                     IF e_data(c) THEN "datetime64[ns]" ELSE f.tipos[c]],
        !.linhas = [i \in DOMAIN f.linhas |->
                      [c \in DOMAIN f.linhas[i] |->
                         IF e_data(c) THEN to_datetime(f.linhas[i][c])
                         ELSE f.linhas[i][c]]]]

\* novos_campos, in insertion order: <<name, column>> for each computed
\* field whose two source columns exist
novos_campos(f) ==
  (IF tem_coluna(f, "DT_NASC") /\ tem_coluna(f, "DT_SIN_PRI")
   THEN << <<"IDADE_ANOS", idade_anos(coluna(f, "DT_SIN_PRI"), coluna(f, "DT_NASC"))>> >>
   ELSE <<>>)
  \o (IF tem_coluna(f, "DT_INTERNA") /\ tem_coluna(f, "DT_EVOLUCA")
      THEN << <<"TEMPO_INTERNACAO",
                dt_days(coluna(f, "DT_EVOLUCA"), coluna(f, "DT_INTERNA"))>> >>
      ELSE <<>>)
  \o (IF tem_coluna(f, "DT_ENTUTI") /\ tem_coluna(f, "DT_SAIDUTI")
      THEN << <<"TEMPO_UTI", dt_days(coluna(f, "DT_SAIDUTI"), coluna(f, "DT_ENTUTI"))>> >>
      ELSE <<>>)

\* pd.concat([df, df_novos_campos], axis=1): the new columns go after the
\* columns of df, row by row
juntar_colunas(f, novos) ==
  LET nomes == {novos[k][1] : k \in DOMAIN novos}
      de(c) == novos[CHOOSE k \in DOMAIN novos : novos[k][1] = c][2]
  IN [colunas |-> f.colunas \o [k \in DOMAIN novos |-> novos[k][1]],
      tipos |-> [c \in DOMAIN f.tipos \cup nomes |->
                   IF c \in nomes THEN de(c).tipo ELSE f.tipos[c]],
      linhas |-> [i \in DOMAIN f.linhas |->
                    [c \in DOMAIN f.tipos \cup nomes |->
                       IF c \in nomes THEN de(c).celulas[i] ELSE f.linhas[i][c]]]]

\* criar_campos_calculados(df): the date fields are converted, then the
\* computed fields are added in one go
criar_campos_calculados(f) ==
  juntar_colunas(converter_datas(f), novos_campos(converter_datas(f)))

-----------------------------------------------------------------------------
(* processar_srag.py: exportar_dados, processar_dados_srag.  The call of   *)
(* carregar_dados runs the loader's own steps.                             *)

\* aplicar_categorias_completo on a frame: the mapper works column by
\* column; a column in which a label was written becomes an object column
mapear_quadro(f) ==
  [f EXCEPT
     !.tipos = [c \in DOMAIN f.tipos |->
                  IF aplicar_categorias_completo([x \in {c} |-> coluna(f, c)])[c] # coluna(f, c)
                  THEN "object" ELSE f.tipos[c]],
     !.linhas = [i \in DOMAIN f.linhas |->
                   [c \in DOMAIN f.linhas[i] |->
                      aplicar_categorias_completo([x \in {c} |-> coluna(f, c)])[c][i]]]]

\* The stages of processar_dados_srag, in the order of the source
etapas == <<"carregar", "limpar", "renomear", "mapear", "calcular", "exportar">>

\* df = carregar_dados(caminho_arquivo)
PpChamarCarga ==
  /\ pp_pc = "inicio"
  /\ pp_pc' = "carregando"
  /\ cg_loader' = "dados"
  /\ cg_arq' = pp_arquivo
  /\ cg_configs' = <<>>
  /\ cg_i' = 1
  /\ cg_log' = <<>>
  /\ cg_pc' = "inicio"
  /\ cg_ret' = RetPendente
  /\ cg_dbfread' \in BOOLEAN
  /\ UNCHANGED cg_tentativas
  /\ UNCHANGED <<pp_arquivo, pp_df, pp_etapas, pp_saida, pp_ret>>
  /\ UNCHANGED restoPipe

\* if df is None: return None; an exception of the loader is let through
PpReceberCarga ==
  /\ pp_pc = "carregando" /\ cg_pc = "retornou"
  /\ pp_etapas' = Append(pp_etapas, "carregar")
  /\ CASE cg_ret.tipo = "df" ->
            /\ pp_df' = cg_ret.df
            /\ pp_pc' = "limpar"
            /\ UNCHANGED pp_ret
       [] cg_ret.tipo = "None" ->
            /\ pp_ret' = RetNone
            /\ pp_pc' = "fim"
            /\ UNCHANGED pp_df
       [] OTHER ->
            /\ pp_ret' = RetExcecao
            /\ pp_pc' = "fim"
            /\ UNCHANGED pp_df
  /\ cg_pc' = "parado"
  /\ UNCHANGED <<cg_loader, cg_arq, cg_tentativas, cg_dbfread, cg_configs, cg_i,
                 cg_log, cg_ret>>
  /\ UNCHANGED <<pp_arquivo, pp_saida>>
  /\ UNCHANGED restoPipe

\* df = limpar_dados(df)
PpLimpar ==
  /\ pp_pc = "limpar"
  /\ pp_df' = limpar_dados(pp_df)
  /\ pp_etapas' = Append(pp_etapas, "limpar")
  /\ pp_pc' = "renomear"
  /\ UNCHANGED <<pp_arquivo, pp_saida, pp_ret>>
  /\ UNCHANGED varsCarga
  /\ UNCHANGED restoPipe

\* df = standardize_column_names(df)
PpRenomear ==
  /\ pp_pc = "renomear"
  /\ pp_df' = com_cabecalho(pp_df, standardize_column_names(pp_df).colunas)
  /\ pp_etapas' = Append(pp_etapas, "renomear")
  /\ pp_pc' = "mapear"
  /\ UNCHANGED <<pp_arquivo, pp_saida, pp_ret>>
  /\ UNCHANGED varsCarga
  /\ UNCHANGED restoPipe

\* df = aplicar_categorias_completo(df)
PpMapear ==
  /\ pp_pc = "mapear"
  /\ pp_df' = mapear_quadro(pp_df)
  /\ pp_etapas' = Append(pp_etapas, "mapear")
  /\ pp_pc' = "calcular"
  /\ UNCHANGED <<pp_arquivo, pp_saida, pp_ret>>
  /\ UNCHANGED varsCarga
  /\ UNCHANGED restoPipe

\* df = criar_campos_calculados(df)
PpCalcular ==
  /\ pp_pc = "calcular"
  /\ pp_df' = criar_campos_calculados(pp_df)
  /\ pp_etapas' = Append(pp_etapas, "calcular")
  /\ pp_pc' = "exportar"
  /\ UNCHANGED <<pp_arquivo, pp_saida, pp_ret>>
  /\ UNCHANGED varsCarga
  /\ UNCHANGED restoPipe

\* Mutant of retorno_exportar: the table is returned whatever exportar_dados said
retorno_exportar_sempre(sucesso, f) == RetDf(f)

\* if sucesso: return df; else: return None
retorno_exportar(sucesso, f) == IF sucesso THEN RetDf(f) ELSE RetNone

\* sucesso = exportar_dados(df, arquivo_saida): df.to_csv writes the file
\* and True is returned, or it raises and False is returned
PpExportar ==
  /\ pp_pc = "exportar"
  /\ \E sucesso \in BOOLEAN :
       /\ pp_saida' = IF sucesso THEN [existe |-> TRUE, quadro |-> pp_df] ELSE pp_saida
       /\ pp_ret' = retorno_exportar(sucesso, pp_df)
  /\ pp_etapas' = Append(pp_etapas, "exportar")
  /\ pp_pc' = "fim"
  /\ UNCHANGED <<pp_arquivo, pp_df>>
  /\ UNCHANGED varsCarga
  /\ UNCHANGED restoPipe

-----------------------------------------------------------------------------
(* Specification of the pipeline: the file at caminho_arquivo is drawn,    *)
(* then processar_dados_srag runs                                          *)

\* The frames of the drawn files: a frame with a duplicated row, an old
\* column name, a coded field and the dates of a stay; a frame of one
\* column; a frame without rows
QuadrosPipe ==
  { [colunas |-> <<"FAB_COV_1", "CS_SEXO", "DT_INTERNA", "DT_EVOLUCA">>,
     tipos |-> [FAB_COV_1 |-> "object", CS_SEXO |-> "float64",
                DT_INTERNA |-> "object", DT_EVOLUCA |-> "object"],
     linhas |-> << [FAB_COV_1 |-> <<"a">>, CS_SEXO |-> <<"1">>,
                    DT_INTERNA |-> <<"2","8","/","0","2","/","2","0","2","0">>,
                    DT_EVOLUCA |-> <<"0","1","/","0","3","/","2","0","2","0">>],
                   [FAB_COV_1 |-> <<"a">>, CS_SEXO |-> <<"1">>,
                    DT_INTERNA |-> <<"2","8","/","0","2","/","2","0","2","0">>,
                    DT_EVOLUCA |-> <<"0","1","/","0","3","/","2","0","2","0">>],
                   [FAB_COV_1 |-> Null, CS_SEXO |-> <<"2">>,
                    DT_INTERNA |-> <<"x">>,
                    DT_EVOLUCA |-> Null] >>],
    QuadroExemplo,
    [colunas |-> <<"CS_SEXO">>, tipos |-> [CS_SEXO |-> "float64"], linhas |-> <<>>] }

\* The drawn files: a missing file parses under no configuration
ArquivosPipe ==
  { [existe |-> e, ext |-> x, le |-> l, quadro |-> q] :
      e \in BOOLEAN, x \in {"csv", "dbf", "xlsx", "txt"},
      l \in { {}, {configs_dados[1]}, {configs_dados[3], configs_dados[4]} },
      q \in QuadrosPipe }

PipeInit ==
  /\ pp_arquivo \in {a \in ArquivosPipe :
                       /\ ~a.existe => a.le = {}
                       /\ a.ext # "csv" => a.le = {}}
  /\ pp_df = SemQuadro
  /\ pp_etapas = <<>>
  /\ pp_pc = "inicio"
  /\ pp_saida = SemArquivo
  /\ pp_ret = RetPendente

PipeNext ==
  \/ PpChamarCarga \/ DadosInicio \/ CargaTentar \/ CargaEsgotar \/ PpReceberCarga
  \/ PpLimpar \/ PpRenomear \/ PpMapear \/ PpCalcular \/ PpExportar

\* The pipeline's variables while it is not running
PipeParado ==
  /\ pp_arquivo = [existe |-> FALSE, ext |-> "csv", le |-> {}, quadro |-> SemQuadro]
  /\ pp_df = SemQuadro
  /\ pp_etapas = <<>>
  /\ pp_pc = "parado"
  /\ pp_saida = SemArquivo
  /\ pp_ret = RetPendente

-----------------------------------------------------------------------------
(* Specification of the table functions of processar_srag.py taken one by  *)
(* one: a function and its arguments are drawn, then it is applied         *)

MaxColunas == 3
MaxDatas == 2

\* The thresholds drawn for remover_colunas_nulas, as <<numerator,
\* denominator>>: 0, 1/3, 1/2, 2/3 and the default 1.0
Limiares == { <<0, 1>>, <<1, 3>>, <<1, 2>>, <<2, 3>>, <<1, 1>> }

\* Cells of a drawn column of remover_colunas_nulas, by dtype: a null, and
\* cells that are not null (the text NAN among them)
CelulasNulas(tipo) ==
  IF tipo = "object" THEN {Null, <<"a">>, <<"N","A","N">>} ELSE {Null, <<"1">>}

\* The drawn frames of remover_colunas_nulas: up to max rows over the first
\* k columns of ColunasLimpar
QuadrosNulos(max) ==
  UNION { { [colunas |-> SubSeq(ColunasLimpar, 1, k),
             tipos |-> [c \in {ColunasLimpar[j] : j \in 1..k} |-> TiposLimpar[c]],
             linhas |-> ls] :
              ls \in [1..n -> {r \in [{ColunasLimpar[j] : j \in 1..k} ->
                                        UNION {CelulasNulas(t) : t \in {"object", "float64"}}] :
                                 \A c \in DOMAIN r : r[c] \in CelulasNulas(TiposLimpar[c])}] } :
            k \in 1..Len(ColunasLimpar), n \in 0..max }

\* The column names the drawn headers are made of
NomesCabecalho == {"FAB_COV_1", "FAB_COV_2", "FAB_COVREF", "FAB_COV1", "CS_SEXO"}

\* The drawn tables of standardize_column_names: a header of up to max
\* different names and, by position, the cells of each column
TabelasCabecalho(max) ==
  UNION { { [colunas |-> cs, valores |-> [k \in 1..n |-> <<cs[k], <<"v">>, Null>>]] :
              cs \in {s \in [1..n -> NomesCabecalho] :
                        \A j, k \in 1..n : s[j] = s[k] => j = k} } :
            n \in 0..max }

\* The cells of a drawn date column: null, three dates (the first two a
\* leap day apart), a text that is no date
CelulasData ==
  { Null,
    <<"2","8","/","0","2","/","2","0","2","0">>,
    <<"0","1","/","0","3","/","2","0","2","0">>,
    <<"0","1","/","0","3","/","2","0","2","1">>,
    <<"x">> }

\* and a date that does not exist, a day-first date, a date without zeros
CelulasDataSo ==
  CelulasData \cup { <<"3","1","/","0","2","/","2","0","2","1">>,
                     <<"0","2","/","0","1","/","2","0","2","1">>,
                     <<"2","/","1","/","2","0","2","1">> }

\* The fields the lookup table annotates as dates to be converted
CamposAnotados ==
  {"DT_NOTIFIC", "DT_SIN_PRI", "DT_NASC", "DT_UT_DOSE", "DOSE_1_COV", "DOSE_2_COV",
   "DOSE_REF", "DT_INTERNA", "DT_ENTUTI", "DT_SAIDUTI", "DT_RAIOX", "DT_TOMO",
   "DT_COLETA", "DT_RES_AN", "DT_PCR", "DT_EVOLUCA", "DT_ENCERRA", "DT_DIGITA"}

\* The pairs of date columns a computed field is made from: <<start, end>>
ParesDeDatas ==
  { <<"DT_INTERNA", "DT_EVOLUCA">>, <<"DT_ENTUTI", "DT_SAIDUTI">>,
    <<"DT_NASC", "DT_SIN_PRI">> }

\* A frame of text columns cs whose rows are ls
QuadroTexto(cs, ls) ==
  [colunas |-> cs,
   tipos |-> [c \in {cs[k] : k \in DOMAIN cs} |-> "object"],
   linhas |-> ls]

\* The drawn frames of criar_campos_calculados: one text column (an
\* annotated field, or a field that is no date), or the two columns of a
\* pair, of up to max rows
QuadrosDatas(max) ==
  UNION { UNION { { QuadroTexto(<<c>>, ls) : ls \in [1..n -> [{c} -> CelulasDataSo]] } :
                    n \in 0..max } :
            c \in CamposAnotados \cup {"CS_SEXO"} }
  \cup
  UNION { UNION { { QuadroTexto(p, ls) : ls \in [1..n -> [{p[1], p[2]} -> CelulasData]] } :
                    n \in 0..max } :
            p \in ParesDeDatas }

FnInit ==
  /\ fn_op \in {"remover_colunas_nulas", "standardize_column_names",
                "criar_campos_calculados"}
  /\ fn_entrada \in CASE fn_op = "remover_colunas_nulas" -> QuadrosNulos(MaxLinhas)
                       [] fn_op = "standardize_column_names" -> TabelasCabecalho(MaxColunas)
                       [] OTHER -> QuadrosDatas(MaxDatas)
  /\ fn_limiar \in IF fn_op = "remover_colunas_nulas" THEN Limiares ELSE { <<1, 1>> }
  /\ fn_saida = SemQuadro
  /\ fn_feito = FALSE

\* df = remover_colunas_nulas(df, threshold)
FnRemoverColunasNulas ==
  /\ fn_op = "remover_colunas_nulas" /\ ~fn_feito
  /\ fn_saida' = remover_colunas_nulas(fn_entrada, fn_limiar[1], fn_limiar[2])
  /\ fn_feito' = TRUE
  /\ UNCHANGED <<fn_op, fn_entrada, fn_limiar>>
  /\ UNCHANGED restoFn

\* df = standardize_column_names(df)
FnStandardizeColumnNames ==
  /\ fn_op = "standardize_column_names" /\ ~fn_feito
  /\ fn_saida' = standardize_column_names(fn_entrada)
  /\ fn_feito' = TRUE
  /\ UNCHANGED <<fn_op, fn_entrada, fn_limiar>>
  /\ UNCHANGED restoFn

\* df = criar_campos_calculados(df)
FnCriarCamposCalculados ==
  /\ fn_op = "criar_campos_calculados" /\ ~fn_feito
  /\ fn_saida' = criar_campos_calculados(fn_entrada)
  /\ fn_feito' = TRUE
  /\ UNCHANGED <<fn_op, fn_entrada, fn_limiar>>
  /\ UNCHANGED restoFn

FnNext ==
  \/ FnRemoverColunasNulas \/ FnStandardizeColumnNames \/ FnCriarCamposCalculados

\* The variables of the table functions while none is applied
FnParado ==
  /\ fn_op = "nenhuma"
  /\ fn_entrada = SemQuadro
  /\ fn_limiar = <<1, 1>>
  /\ fn_saida = SemQuadro
  /\ fn_feito = FALSE

-----------------------------------------------------------------------------
(* analisar_dicionario_formatado.py: analisar_formatacao, run on the file  *)
(* formatar_dicionario was given and the file it wrote                     *)

\* padrao_campo of the auditor, ^([0-9]+[\-\.].+?)\s+(alts), matched at the
\* start of s: group 1 holds at least one character after the separator
padrao_campo_auditor(s) ==
  casa_menor(s, TiposCampo,
             {q \in cortes(s, TiposCampo) : q >= conta_digitos(s, 1) + 3})

\* The names of the fields identified in the lines of a document:
\* match.group(1).strip() for every line whose strip() matches
nomes_de_campos(linhas) ==
  { str_strip(padrao_campo_auditor(str_strip(linhas[k])).g1) :
      k \in {j \in DOMAIN linhas : padrao_campo_auditor(str_strip(linhas[j])).ok} }

\* campos_apenas_original = nomes_original - nomes_formatado
campos_apenas_original == an_nomes_original \ an_nomes_formatado

\* analisar_formatacao(arquivo_original, arquivo_formatado): a missing file
\* returns False; else both are read and split and the fields of each are
\* identified.  The report is printed and True returned.
Analisar ==
  /\ an_pc = "inicio" /\ fm_pc = "fim"
  /\ IF fm_existe /\ fm_saida.existe
     THEN /\ an_nomes_original' = nomes_de_campos(split_linhas(fm_conteudo))
          /\ an_nomes_formatado' = nomes_de_campos(split_linhas(fm_saida.conteudo))
          /\ an_ret' = "True"
     ELSE /\ an_ret' = "False"
          /\ UNCHANGED <<an_nomes_original, an_nomes_formatado>>
  /\ an_pc' = "fim"
  /\ UNCHANGED varsFmt
  /\ UNCHANGED restoAnalise

AnaliseInit ==
  /\ an_pc = "inicio"
  /\ an_nomes_original = {}
  /\ an_nomes_formatado = {}
  /\ an_ret = "pendente"

\* The formatter runs, then the auditor
AnaliseNext ==
  \/ FmLer \/ LinhaVazia \/ LinhaSecao
  \/ CampoEstruturado \/ CampoMarkdown \/ CampoTexto
  \/ OutraLinha \/ Gravar \/ Analisar

\* The auditor's variables while it is not running
AnaliseParada ==
  /\ an_pc = "parado"
  /\ an_nomes_original = {}
  /\ an_nomes_formatado = {}
  /\ an_ret = "pendente"

-----------------------------------------------------------------------------
(* The specifications                                                      *)

\* Each script starts while the others are not running
InitMapper ==
  /\ MapperInit
  /\ LimparParado /\ CargaParada /\ UnifParado
  /\ FmtParado /\ FiltrarParado
  /\ PipeParado /\ FnParado /\ AnaliseParada

InitLimpar ==
  /\ LimparInit
  /\ MapperParado /\ CargaParada /\ UnifParado
  /\ FmtParado /\ FiltrarParado
  /\ PipeParado /\ FnParado /\ AnaliseParada

InitCarga ==
  /\ CargaInit
  /\ MapperParado /\ LimparParado /\ UnifParado
  /\ FmtParado /\ FiltrarParado
  /\ PipeParado /\ FnParado /\ AnaliseParada

InitUnif ==
  /\ UnifInit
  /\ MapperParado /\ LimparParado /\ CargaParada
  /\ FmtParado /\ FiltrarParado
  /\ PipeParado /\ FnParado /\ AnaliseParada

InitFmt ==
  /\ FmtInit
  /\ MapperParado /\ LimparParado /\ CargaParada
  /\ UnifParado /\ FiltrarParado
  /\ PipeParado /\ FnParado /\ AnaliseParada

InitFiltrar ==
  /\ FiltrarInit
  /\ MapperParado /\ LimparParado /\ CargaParada
  /\ UnifParado /\ FmtParado
  /\ PipeParado /\ FnParado /\ AnaliseParada

InitPipe ==
  /\ PipeInit
  /\ MapperParado /\ LimparParado /\ CargaParada /\ UnifParado
  /\ FmtParado /\ FiltrarParado /\ FnParado /\ AnaliseParada

InitFn ==
  /\ FnInit
  /\ MapperParado /\ LimparParado /\ CargaParada /\ UnifParado
  /\ FmtParado /\ FiltrarParado /\ PipeParado /\ AnaliseParada

InitAnalise ==
  /\ FmtInit /\ AnaliseInit
  /\ MapperParado /\ LimparParado /\ CargaParada /\ UnifParado
  /\ FiltrarParado /\ PipeParado /\ FnParado

SpecMapper == InitMapper /\ [][MapperNext]_vars

SpecLimpar == InitLimpar /\ [][LimparNext]_vars

SpecCarga == InitCarga /\ [][CargaNext]_vars

SpecUnif == InitUnif /\ [][UnifNext]_vars

SpecFmt == InitFmt /\ [][FmtNext]_vars

SpecFiltrar == InitFiltrar /\ [][FiltrarNext]_vars

SpecPipe == InitPipe /\ [][PipeNext]_vars

SpecFn == InitFn /\ [][FnNext]_vars

SpecAnalise == InitAnalise /\ [][AnaliseNext]_vars

-----------------------------------------------------------------------------
(* Claims about the mapper (checked under SpecMapper)                      *)

\* Fields of the drawn table that have a non-empty entry in the lookup table
ComMapa(t) == {c \in DOMAIN t : c \in DOMAIN categorias /\ categorias[c] # <<>>}

\* The codes k of a field that a cell holds: its trimmed text is k, or its
\* text is k followed by ".0" (the str() of the float k)
CodigosDe(campo, x) ==
  {k \in DOMAIN categorias[campo] :
     /\ notnull(x)
     /\ \/ str_strip(x) = categorias[campo][k][1]
        \/ str_strip(x) = categorias[campo][k][1] \o <<".","0">>}

\* C1: the mapper is idempotent: applying it again to the table returned by
\* the first application leaves every cell unchanged.
C1_Idempotente == chamadas >= 2 => df = df_1

\* C1 witness: after two applications, of a table in which the first
\* application mapped one row of a column and left another, non-null and
\* not a label, as it was.
C1_Witness ==
  /\ chamadas = 2
  /\ \E c \in DOMAIN df_entrada : \E i, j \in DOMAIN df_entrada[c] :
       /\ df_1[c][i] # df_entrada[c][i]
       /\ notnull(df_entrada[c][j])
       /\ df_1[c][j] = df_entrada[c][j]
       /\ str_upper(str_strip(df_entrada[c][j])) \notin todos_valores_texto

\* C2 (as stated): every present field C with a non-empty lookup entry gets
\* a derived column C_desc that holds, row by row, the label of the code in
\* C, and null where C is null or holds no code of the table.
C2_ColunaDesc ==
  chamadas = 1 =>
    \A c \in ComMapa(df_entrada) :
      /\ (c \o "_desc") \in DOMAIN df
      /\ \A i \in DOMAIN df_entrada[c] :
           LET ks == CodigosDe(c, df_entrada[c][i])
           IN df[c \o "_desc"][i] =
                IF ks = {} THEN Null
                ELSE categorias[c][CHOOSE k \in ks : TRUE][2]

\* C2 (amended): no column is added or removed; the mapper overwrites C in
\* place: a cell whose trimmed text is a code k of C's lookup entry, or whose
\* text is k followed by ".0", holds the label of k afterwards, and a null
\* cell stays null.
C2_RotuloNoLugar ==
  chamadas = 1 =>
    /\ DOMAIN df = DOMAIN df_entrada
    /\ \A c \in ComMapa(df_entrada) : \A i \in DOMAIN df_entrada[c] :
         LET x == df_entrada[c][i]
         IN /\ x = Null => df[c][i] = Null
            /\ \A k \in DOMAIN categorias[c] :
                 (notnull(x) /\ (str_strip(x) = categorias[c][k][1]
                                 \/ x = categorias[c][k][1] \o <<".","0">>))
                   => df[c][i] = categorias[c][k][2]

\* C2 witness: a lookup column held a code in float form ("1.0") in one row
\* and a null in another, and the mapper has run.
C2_Witness ==
  /\ chamadas = 1
  /\ \E c \in ComMapa(df_entrada) : \E i, j \in DOMAIN df_entrada[c] :
       /\ df_entrada[c][i] = <<"1",".","0">>
       /\ df[c][i] = categorias[c][1][2]
       /\ df_entrada[c][j] = Null

\* C3: in a field with a non-empty lookup entry, a non-null cell that matches
\* none of the field's codes (neither as the code nor as the code followed by
\* ".0") still holds its original value after the mapper; null stays null.
C3_NaoMapeadoMantido ==
  chamadas = 1 =>
    \A c \in ComMapa(df_entrada) : \A i \in DOMAIN df_entrada[c] :
      LET x == df_entrada[c][i]
      IN /\ x = Null => df[c][i] = Null
         /\ (notnull(x) /\ CodigosDe(c, x) = {}) => df[c][i] = x

-----------------------------------------------------------------------------
(* Claims about the cleaning step (checked under SpecLimpar)               *)

\* C4: the table returned by limpar_dados contains no two rows that are
\* equal in every column, also not rows that became equal only by the
\* trim/upper-case normalisation of the text columns.
C4_SemDuplicatas ==
  lp_feito =>
    \A i, j \in DOMAIN lp_df.linhas : lp_df.linhas[i] = lp_df.linhas[j] => i = j

-----------------------------------------------------------------------------
(* Claims about the unification (checked under SpecUnif)                   *)

RECURSIVE SomaLinhas(_)
\* The rows of the files at the positions ks of arquivos_csv, counted
SomaLinhas(ks) ==
  IF ks = {} THEN 0
  ELSE LET k == CHOOSE x \in ks : TRUE
       IN Len(un_arquivos[k].quadro.linhas) + SomaLinhas(ks \ {k})

\* The unification has ended and has written the unified file
Unificou == un_pc = "fim" /\ un_saida.existe

\* The file list is some list followed by itself
ListaDobrada ==
  /\ Len(un_arquivos) % 2 = 0
  /\ \A k \in 1..(Len(un_arquivos) \div 2) :
       un_arquivos[k] = un_arquivos[k + Len(un_arquivos) \div 2]

\* C5: the unified table has as many rows as the input files that loaded
\* have together; when every file of the list is listed twice, that is
\* double the rows of the files of the list that loaded
C5_LinhasPreservadas ==
  Unificou =>
    /\ Len(un_saida.quadro.linhas) = SomaLinhas(un_carregados)
    /\ ListaDobrada =>
         Len(un_saida.quadro.linhas) =
           2 * SomaLinhas(un_carregados \cap (1..(Len(un_arquivos) \div 2)))

\* C5 witness: a list of two files listed twice, a file of it loaded and
\* the other not, is unified
C5_Witness ==
  /\ Unificou /\ ListaDobrada
  /\ Len(un_arquivos) = 4
  /\ un_carregados = {2, 4}
  /\ Len(un_saida.quadro.linhas) = 4

RECURSIVE SomaDistintas(_)
\* The distinct rows of each of the frames js of dataframes, counted
SomaDistintas(js) ==
  IF js = {} THEN 0
  ELSE LET j == CHOOSE x \in js : TRUE
       IN Cardinality({un_dataframes[j].linhas[i] : i \in DOMAIN un_dataframes[j].linhas})
          + SomaDistintas(js \ {j})

\* C6 as stated: rows are de-duplicated per file and not across files, so
\* the unified table holds, of each loaded file, one row for each of its
\* distinct rows
C6_DeduplicaPorArquivo ==
  Unificou => Len(un_saida.quadro.linhas) = SomaDistintas(DOMAIN un_dataframes)

\* The position in the unified table before the first row of frame j
Deslocamento(j) ==
  Len(todas_linhas(SubSeq(un_dataframes, 1, j - 1), {}, 1))

\* C6 amended: the unification de-duplicates nothing; every row of every
\* loaded file, identical to another or not, is in the unified table, in
\* the order of the files and of the rows in each file
C6_NadaDeduplicado ==
  Unificou =>
    /\ Len(un_saida.quadro.linhas) = Deslocamento(Len(un_dataframes) + 1)
    /\ \A j \in DOMAIN un_dataframes : \A i \in DOMAIN un_dataframes[j].linhas :
         \A c \in DOMAIN un_dataframes[j].linhas[i] :
           un_saida.quadro.linhas[Deslocamento(j) + i][c] = un_dataframes[j].linhas[i][c]

\* C6 witness: the file with the same row twice is loaded from two
\* positions of the list, and the unified table holds that row four times
C6_Witness ==
  /\ Unificou
  /\ \E j, k \in DOMAIN un_dataframes :
       /\ j < k
       /\ un_dataframes[j] = un_dataframes[k]
       /\ Len(un_dataframes[j].linhas) = 2
       /\ un_dataframes[j].linhas[1] = un_dataframes[j].linhas[2]
       /\ Len(un_dataframes) = 2
  /\ Len(un_saida.quadro.linhas) = 4
  /\ \A i \in 1..4 : un_saida.quadro.linhas[i] = un_saida.quadro.linhas[1]

-----------------------------------------------------------------------------
(* Claims about the loaders (checked under SpecCarga)                      *)

\* The fixed list of the running loader
ListaFixa == IF cg_loader = "robusto" THEN configs ELSE configs_dados

\* Configuration k of the log failed on the file
Falhou(k) == cg_log[k] \notin cg_arq.le

Min(a, b) == IF a < b THEN a ELSE b

\* C9: the attempts are a prefix of the loader's fixed list, an attempt is
\* made only after every earlier one failed, the first success is returned
\* and ends the attempts, carregar_csv_robusto makes at most
\* min(tentativas, 4) attempts, and a loader given a CSV path returns None
\* exactly when every attempt it made failed (none is made on a missing
\* file by carregar_csv_robusto)
C9_ListaFixaEmOrdem ==
  cg_arq.ext = "csv" =>
    /\ Len(cg_log) <= Len(ListaFixa)
    /\ \A k \in DOMAIN cg_log : cg_log[k] = ListaFixa[k]
    /\ \A k \in 1..(Len(cg_log) - 1) : Falhou(k)
    /\ cg_pc # "retornou" => \A k \in DOMAIN cg_log : Falhou(k)
    /\ cg_loader = "robusto" => Len(cg_log) <= Min(cg_tentativas, 4)
    /\ cg_loader = "robusto" /\ ~cg_arq.existe => cg_log = <<>>
    /\ cg_pc = "retornou" =>
         /\ cg_ret.tipo \in {"None", "df"}
         /\ cg_ret.tipo = "None" <=> \A k \in DOMAIN cg_log : Falhou(k)
         /\ cg_ret.tipo = "df" =>
              /\ cg_log # <<>> /\ ~Falhou(Len(cg_log))
              /\ cg_ret.df = IF cg_loader = "robusto"
                             THEN filtrar_colunas_existentes(cg_arq.quadro,
                                                             colunas_para_manter)
                             ELSE cg_arq.quadro

\* C9 witness: carregar_csv_robusto, allowed three attempts, has returned
\* the frame of the third after the first two failed
C9_Witness ==
  /\ cg_loader = "robusto" /\ cg_pc = "retornou"
  /\ cg_tentativas = 3
  /\ Len(cg_log) = 3
  /\ cg_ret.tipo = "df"
  /\ configs[4] \in cg_arq.le

-----------------------------------------------------------------------------
(* Claims about the formatter (checked under SpecFmt)                      *)

\* formatar_dicionario has written its output and returned True
Formatou == fm_pc = "fim" /\ fm_ret = "True"

\* s without its whitespace
sem_espacos(s) == SelectSeq(s, LAMBDA c : ~IsSpace(c))

RECURSIVE subsequencia(_, _)
\* The characters of a are in b, in the order they have in a
subsequencia(a, b) ==
  IF a = <<>> THEN TRUE
  ELSE IF b = <<>> THEN FALSE
       ELSE subsequencia(IF a[1] = b[1] THEN Tail(a) ELSE a, Tail(b))

RECURSIVE TextoDe(_)
\* The text of the input lines ls, one after the other, without whitespace
TextoDe(ls) ==
  IF ls = <<>> THEN <<>>
  ELSE sem_espacos(fm_linhas[ls[1]]) \o TextoDe(Tail(ls))

\* A field header line: a line Case 3 of the main loop matches
Cabecalho(l) == casa_cabecalho(str_rstrip(l)).ok

\* A continuation line as the claim has it: not blank, not indented, not a
\* field header
ContinuacaoSimples(l) ==
  /\ str_strip(l) # <<>>
  /\ ~IsSpace(l[1])
  /\ ~Cabecalho(l)

\* A continuation line that is not a section header line either
Continuacao(l) == ContinuacaoSimples(l) /\ ~padrao_secao(str_strip(l))

\* For every field header h followed by N continuation lines (as Cont has
\* them, "simples" or not) and then a field header h2: an output entry is
\* the field block of h with exactly those N lines, whose text it holds in
\* order, and the next entry is the field block that h2 starts
BlocoExato(modo) ==
  Formatou =>
    \A h, h2 \in DOMAIN fm_linhas :
      ( /\ h < h2
        /\ Cabecalho(fm_linhas[h]) /\ Cabecalho(fm_linhas[h2])
        /\ \A m \in (h + 1)..(h2 - 1) :
             IF modo = "simples" THEN ContinuacaoSimples(fm_linhas[m])
             ELSE Continuacao(fm_linhas[m]) )
      => \E e \in DOMAIN fm_origem :
           /\ fm_origem[e] = Origem("campo", [k \in 1..(h2 - h) |-> h + k - 1])
           /\ subsequencia(TextoDe([k \in 1..(h2 - h) |-> h + k - 1]),
                           sem_espacos(fm_processadas[e]))
           /\ fm_formato = "texto" =>
                fm_processadas[e] =
                  join(<<" ">>, [k \in 1..(h2 - h) |->
                                   IF k = 1 THEN str_rstrip(fm_linhas[h])
                                   ELSE str_strip(fm_linhas[h + k - 1])])
           /\ e + 1 \in DOMAIN fm_origem
           /\ fm_origem[e + 1].caso = "campo"
           /\ fm_origem[e + 1].linhas[1] = h2

\* C7 as stated: a field header, N unindented non-blank continuation
\* lines, another field header: the first field's block holds exactly
\* those N lines and the second header starts its own block
C7_BlocoDeNLinhas == BlocoExato("simples")

\* C7 amended: the same, when none of the N continuation lines is a
\* section header line
C7_BlocoSemSecao == BlocoExato("sem secao")

\* C7 witness: a header, two continuation lines and a header have been
\* formatted into two field blocks, the first of three lines
C7_Witness ==
  /\ Formatou
  /\ Len(fm_linhas) = 4
  /\ Cabecalho(fm_linhas[1]) /\ Cabecalho(fm_linhas[4])
  /\ Continuacao(fm_linhas[2]) /\ Continuacao(fm_linhas[3])
  /\ fm_linhas[2] # fm_linhas[3]
  /\ Len(fm_origem) = 2
  /\ fm_origem[1] = Origem("campo", <<1, 2, 3>>)
  /\ fm_origem[2] = Origem("campo", <<4>>)

RECURSIVE Achatar(_)
\* The input lines that went into the output entries e.., in output order
Achatar(e) ==
  IF e > Len(fm_origem) THEN <<>>
  ELSE fm_origem[e].linhas \o Achatar(e + 1)

\* The input lines that are not blank, in input order
NaoBrancas ==
  SelectSeq([k \in DOMAIN fm_linhas |-> k],
            LAMBDA m : \E k \in DOMAIN fm_linhas[m] : ~IsSpace(fm_linhas[m][k]))

\* C8: in every format, each non-blank input line went into exactly one
\* output entry, in input order: it is an output line of its own or is
\* merged, with all its text, into one field block; the file written is
\* these entries
C8_NenhumaLinhaPerdida ==
  Formatou =>
    /\ fm_saida.existe
    /\ fm_saida.conteudo = join(<<"\n">>, fm_processadas)
    /\ Len(fm_origem) = Len(fm_processadas)
    /\ Achatar(1) = NaoBrancas
    /\ \A e \in DOMAIN fm_origem :
         CASE fm_origem[e].caso = "vazia" ->
                fm_origem[e].linhas = <<>> /\ fm_processadas[e] = <<>>
           [] fm_origem[e].caso = "campo" ->
                /\ fm_origem[e].linhas # <<>>
                /\ subsequencia(TextoDe(fm_origem[e].linhas),
                                sem_espacos(fm_processadas[e]))
           [] OTHER ->
                /\ Len(fm_origem[e].linhas) = 1
                /\ fm_processadas[e] = str_rstrip(fm_linhas[fm_origem[e].linhas[1]])

\* C8 witness: a field block of two lines was formatted, then a section
\* header and an indented header that stayed a line of its own
C8_Witness ==
  /\ Formatou
  /\ Len(fm_linhas) = 4
  /\ \E e \in DOMAIN fm_origem : fm_origem[e] = Origem("campo", <<1, 2>>)
  /\ \E e \in DOMAIN fm_origem : fm_origem[e] = Origem("secao", <<3>>)
  /\ \E e \in DOMAIN fm_origem : fm_origem[e] = Origem("outra", <<4>>)
  /\ IsSpace(fm_linhas[4][1])

-----------------------------------------------------------------------------
(* Claims about the filter (checked under SpecFiltrar)                     *)

\* The row is one the filter is to write: its TEMPO_UTI, when there is such
\* a column, is null or not greater than 160, and its EVOLUCAO, when there
\* is such a column, is not null
Mantido(r) ==
  /\ "TEMPO_UTI" \in DOMAIN r =>
       (r["TEMPO_UTI"] = Null \/ ~maior(numero(r["TEMPO_UTI"]), 160))
  /\ "EVOLUCAO" \in DOMAIN r => r["EVOLUCAO"] # Null

\* The frame with exactly the rows of f to be written, in their order,
\* columns unchanged
Esperado(f) == [f EXCEPT !.linhas = SelectSeq(f.linhas, Mantido)]

\* C10: the frame the filter writes is the frame it loaded with exactly
\* the rows that have TEMPO_UTI null or not greater than 160 and EVOLUCAO
\* not null, in their order and with every column unchanged; an absent
\* column skips its filter and raises nothing
C10_FiltroExato ==
  /\ fl_pc = "gravar" => fl_df = Esperado(fl_original)
  /\ fl_ret = "True" => fl_fs[fl_saida] = Arquivo(Esperado(fl_original))
  /\ fl_erro = "filtro" => tem_coluna(fl_original, "TEMPO_UTI")

\* C10 witness: of three records loaded, one with TEMPO_UTI over 160 and
\* one with a null EVOLUCAO are gone, and the one with a null TEMPO_UTI is
\* written
C10_Witness ==
  /\ fl_ret = "True"
  /\ Len(fl_original.linhas) = 3
  /\ tem_coluna(fl_original, "TEMPO_UTI") /\ tem_coluna(fl_original, "EVOLUCAO")
  /\ fl_original.linhas[1]["TEMPO_UTI"] = <<"1","6","1">>
  /\ fl_original.linhas[2]["TEMPO_UTI"] = Null
  /\ fl_original.linhas[2]["EVOLUCAO"] # Null
  /\ fl_original.linhas[3]["EVOLUCAO"] = Null
  /\ fl_original.linhas[3]["TEMPO_UTI"] = <<"1","6","0",".","0">>
  /\ fl_fs[fl_saida].quadro.linhas = << fl_original.linhas[2] >>

\* The step writes the filtered output over the file it was loaded from
Sobrescreve ==
  /\ fl_pc = "gravar" /\ fl_ret' = "True"
  /\ fl_saida = fl_entrada

\* A step of the filter, the paths being those filtrar_dados_srag was given.
\* An overwrite of the input (in every call, or in the calls that left
\* backup at True) finds the backup file holding what was loaded; with
\* different paths no step writes the backup or the input
PassoComBackup(chamadas_cobertas) ==
  /\ (Sobrescreve /\ (chamadas_cobertas = "todas" \/ fl_backup)) =>
       fl_fs[backup_path(fl_entrada)] = Arquivo(fl_original)
  /\ (fl_pc # "main" /\ fl_saida # fl_entrada) =>
       /\ fl_fs'[backup_path(fl_entrada)] = fl_fs[backup_path(fl_entrada)]
       /\ fl_fs'[fl_entrada] = fl_fs[fl_entrada]

\* C11 as stated: whenever the output path is the input path, the backup
\* '<input>.bak' with every record loaded is on disk before the input is
\* overwritten; when the paths differ no backup is written and the input
\* is never modified
C11_BackupSempre == [][PassoComBackup("todas")]_vars

\* C11, amended: the same for the calls that leave backup at its default
\* True (as main does); a call with backup=False overwrites the input and
\* leaves no backup
C11_BackupPorPadrao == [][PassoComBackup("backup")]_vars

\* C11 witness: main with --sobrescrever has overwritten a file of two
\* records with one, and the backup holds the two
C11_Witness ==
  /\ fl_chamada = "main" /\ fl_sobrescrever /\ fl_ret = "True"
  /\ fl_saida = fl_entrada
  /\ Len(fl_original.linhas) = 2
  /\ Len(fl_fs[fl_entrada].quadro.linhas) = 1
  /\ fl_fs[backup_path(fl_entrada)] = Arquivo(fl_original)

\* What filtrar_dados_srag has returned and main has exited with agree with
\* what is on disk
RetornoCoerente ==
  /\ fl_ret = "True" => fl_fs[fl_saida] = Arquivo(fl_df)
  /\ fl_erro \in {"leitura", "filtro"} =>
       /\ fl_ret = "False"
       /\ fl_saida # fl_entrada => fl_fs[fl_saida] = ArquivoAusente
       /\ fl_saida = fl_entrada =>
            fl_fs[fl_saida] \in {ArquivoAusente, ArquivoIlegivel, Arquivo(fl_original)}
  /\ (fl_pc = "fim" /\ fl_chamada = "main") =>
       /\ fl_status = 0 <=> fl_ret = "True"
       /\ fl_status = 1 <=> (~fl_fs[fl_entrada].existe \/ fl_ret = "False")

\* A step that writes the output path is the step that returns True
GravaSoAoRetornarTrue ==
  (fl_pc # "main" /\ fl_fs'[fl_saida] # fl_fs[fl_saida]) => fl_ret' = "True"

\* C12: filtrar_dados_srag returns True only with the filtered output
\* written; when loading or filtering raises it returns False and the
\* output path is not written; main exits with 0 exactly when the filter
\* returned True, and with 1 when the input file is missing or the filter
\* returned False
C12_RetornoEStatus == []RetornoCoerente /\ [][GravaSoAoRetornarTrue]_vars

\* C12 witness: main has exited with 1 after the first filter raised on
\* a file of two records, and no output file exists
C12_Witness ==
  /\ fl_chamada = "main" /\ fl_pc = "fim" /\ fl_status = 1
  /\ fl_erro = "filtro" /\ fl_ret = "False"
  /\ ~fl_sobrescrever
  /\ Len(fl_original.linhas) = 2
  /\ fl_fs[fl_saida] = ArquivoAusente

-----------------------------------------------------------------------------
(* Claims about the pipeline (checked under SpecPipe)                      *)

\* The table the stages after loading make of the loaded frame f
Processado(f) ==
  criar_campos_calculados(
    mapear_quadro(
      com_cabecalho(limpar_dados(f), standardize_column_names(limpar_dados(f)).colunas)))

\* C13: the stages run in the order load, clean, rename, map, compute,
\* export; when loading returns None, None is returned with no later stage
\* run and nothing exported; at the end the processed table is returned
\* exactly when the export succeeded, and None when it failed
C13_OrdemFixa ==
  /\ pp_etapas = SubSeq(etapas, 1, Len(pp_etapas))
  /\ (pp_pc = "fim" /\ cg_ret.tipo = "None") =>
       /\ pp_ret = RetNone
       /\ pp_etapas = <<"carregar">>
       /\ pp_saida = SemArquivo
  /\ (pp_pc = "fim" /\ cg_ret.tipo = "df") =>
       /\ pp_etapas = etapas
       /\ pp_df = Processado(cg_ret.df)
       /\ pp_saida.existe => pp_ret = RetDf(pp_df) /\ pp_saida.quadro = pp_df
       /\ ~pp_saida.existe => pp_ret = RetNone
  /\ pp_ret.tipo = "df" => pp_pc = "fim" /\ pp_saida.existe

\* C13 witness: a CSV file that parses under the third configuration only
\* went through every stage (a duplicate row dropped, a column renamed, a
\* code mapped, the days of the stay computed) and was exported and returned
C13_Witness ==
  /\ pp_pc = "fim" /\ pp_ret.tipo = "df" /\ pp_saida.existe
  /\ Len(cg_log) = 3
  /\ Len(cg_ret.df.linhas) = 3 /\ Len(pp_ret.df.linhas) = 2
  /\ pp_ret.df.colunas =
       <<"FAB_COV1", "CS_SEXO", "DT_INTERNA", "DT_EVOLUCA", "TEMPO_INTERNACAO">>
  /\ pp_ret.df.linhas[1]["CS_SEXO"] = <<"M","a","s","c","u","l","i","n","o">>
  /\ pp_ret.df.linhas[1]["DT_INTERNA"] = <<"2","0","2","0","-","0","2","-","2","8">>
  /\ pp_ret.df.linhas[1]["TEMPO_INTERNACAO"] = <<"2",".","0">>
  /\ pp_ret.df.linhas[2]["TEMPO_INTERNACAO"] = Null

-----------------------------------------------------------------------------
(* Claims about the auditor (checked under SpecAnalise)                    *)

\* C14: when the formatted file is the output of formatar_dicionario in
\* the structured format on the same original, every field name the
\* auditor identifies in the original is identified in the formatted
\* file: 'campos apenas no original' is empty
C14_CoberturaCompleta ==
  (an_ret = "True" /\ fm_formato = "estruturado") => campos_apenas_original = {}

-----------------------------------------------------------------------------
(* Claims about the table functions (checked under SpecFn)                 *)

\* The function op has been applied
Aplicou(op) == fn_op = op /\ fn_feito

\* The old names and what each is to become
NomesAntigos == {"FAB_COV_1", "FAB_COV_2", "FAB_COVREF"}
NomeCorrigido(c) ==
  CASE c = "FAB_COV_1" -> "FAB_COV1"
    [] c = "FAB_COV_2" -> "FAB_COV2"
    [] c = "FAB_COVREF" -> "FAB_COVRF"
    [] OTHER -> c

\* C15: standardize_column_names renames exactly the columns FAB_COV_1,
\* FAB_COV_2 and FAB_COVREF that are present to FAB_COV1, FAB_COV2 and
\* FAB_COVRF: no old name is left, a renamed column holds the values it
\* held, every other column keeps name, position and values, and a table
\* with no old name comes back as it was
C15_RenomeiaExato ==
  Aplicou("standardize_column_names") =>
    /\ DOMAIN fn_saida.colunas = DOMAIN fn_entrada.colunas
    /\ \A k \in DOMAIN fn_entrada.colunas :
         /\ fn_saida.colunas[k] = NomeCorrigido(fn_entrada.colunas[k])
         /\ fn_saida.colunas[k] \notin NomesAntigos
         /\ fn_saida.valores[k] = fn_entrada.valores[k]
    /\ (\A k \in DOMAIN fn_entrada.colunas : fn_entrada.colunas[k] \notin NomesAntigos)
         => fn_saida = fn_entrada

\* C15 witness: of three columns the first and the last were renamed
C15_Witness ==
  /\ Aplicou("standardize_column_names")
  /\ fn_entrada.colunas = <<"FAB_COV_1", "CS_SEXO", "FAB_COVREF">>
  /\ fn_saida.colunas = <<"FAB_COV1", "CS_SEXO", "FAB_COVRF">>
  /\ fn_saida.valores = fn_entrada.valores

RECURSIVE ContaNulos(_, _, _)
\* How many of the rows of f from row i on hold a null in column c
ContaNulos(f, c, i) ==
  IF i > Len(f.linhas) THEN 0
  ELSE (IF f.linhas[i][c] = Null THEN 1 ELSE 0) + ContaNulos(f, c, i + 1)

\* Column c of f has a fraction of null cells >= num/den
FracaoNulaAtinge(f, c, num, den) ==
  /\ Len(f.linhas) > 0
  /\ ContaNulos(f, c, 1) * den >= num * Len(f.linhas)

\* The position of name x in the header cs
PosEm(cs, x) == CHOOSE k \in DOMAIN cs : cs[k] = x

\* The names of a header
NomesDe(cs) == {cs[k] : k \in DOMAIN cs}

C16_WitnessVazia ==
  /\ Aplicou("remover_colunas_nulas")
  /\ fn_entrada.linhas = <<>>
  /\ fn_saida.colunas = fn_entrada.colunas
  /\ fn_entrada.colunas # <<>>

\* What each drawn cell of a date column says, as <<day, month, year>>;
\* <<>> for a cell that holds no date
DataConhecida(x) ==
  CASE x = <<"2","8","/","0","2","/","2","0","2","0">> -> <<28, 2, 2020>>
    [] x = <<"0","1","/","0","3","/","2","0","2","0">> -> <<1, 3, 2020>>
    [] x = <<"0","1","/","0","3","/","2","0","2","1">> -> <<1, 3, 2021>>
    [] x = <<"0","2","/","0","1","/","2","0","2","1">> -> <<2, 1, 2021>>
    [] x = <<"2","/","1","/","2","0","2","1">> -> <<2, 1, 2021>>
    [] OTHER -> <<>>

\* The last day of month m of year a
UltimoDia(m, a) ==
  IF m = 2
  THEN (IF a % 4 = 0 /\ (a % 100 # 0 \/ a % 400 = 0) THEN 29 ELSE 28)
  ELSE IF m \in {4, 6, 9, 11} THEN 30 ELSE 31

\* The first day of the month after that of t
ProximoMes(t) ==
  IF t[2] < 12 THEN <<1, t[2] + 1, t[3]>> ELSE <<1, 1, t[3] + 1>>

\* Day t is before day u
DiaAntes(t, u) ==
  \/ t[3] < u[3]
  \/ t[3] = u[3] /\ t[2] < u[2]
  \/ t[3] = u[3] /\ t[2] = u[2] /\ t[1] < u[1]

RECURSIVE DiasAte(_, _)
\* How many days lead from t to a later or equal day u, counted month by
\* month
DiasAte(t, u) ==
  IF t[2] = u[2] /\ t[3] = u[3] THEN u[1] - t[1]
  ELSE (UltimoDia(t[2], t[3]) - t[1] + 1) + DiasAte(ProximoMes(t), u)

\* The signed number of days from inicio to fim
DiasEntre(inicio, fim) ==
  IF DiaAntes(fim, inicio) THEN 0 - DiasAte(fim, inicio) ELSE DiasAte(inicio, fim)

RECURSIVE NaturalDe(_)
\* The number a text of digits writes
NaturalDe(s) ==
  IF s = <<>> THEN 0
  ELSE NaturalDe(SubSeq(s, 1, Len(s) - 1)) * 10
       + (CHOOSE k \in 0..9 : DigitosSeq[k + 1] = s[Len(s)])

\* The number a cell writes: an integer, or a float with fraction .0
NumeroDe(x) ==
  LET sem_fracao == IF Len(x) > 2 /\ SubSeq(x, Len(x) - 1, Len(x)) = <<".", "0">>
                    THEN SubSeq(x, 1, Len(x) - 2) ELSE x
  IN IF sem_fracao[1] = "-" THEN 0 - NaturalDe(Tail(sem_fracao))
     ELSE NaturalDe(sem_fracao)

\* The computed field campo is in the output exactly when both columns
\* exist in the input, and then holds in each row null or the signed days
TempoCerto(campo, inicio, fim) ==
  LET ambos == {inicio, fim} \subseteq NomesDe(fn_entrada.colunas)
  IN /\ campo \in NomesDe(fn_saida.colunas) <=> ambos
     /\ ambos =>
          \A i \in DOMAIN fn_entrada.linhas :
            IF DataConhecida(fn_entrada.linhas[i][inicio]) = <<>>
               \/ DataConhecida(fn_entrada.linhas[i][fim]) = <<>>
            THEN fn_saida.linhas[i][campo] = Null
            ELSE /\ fn_saida.linhas[i][campo] # Null
                 /\ NumeroDe(fn_saida.linhas[i][campo])
                      = DiasEntre(DataConhecida(fn_entrada.linhas[i][inicio]),
                                  DataConhecida(fn_entrada.linhas[i][fim]))

\* C17: criar_campos_calculados adds TEMPO_INTERNACAO (DT_EVOLUCA minus
\* DT_INTERNA) and TEMPO_UTI (DT_SAIDUTI minus DT_ENTUTI) only when both
\* source columns exist; a row's value is null when either date is null or
\* unparseable, else the signed number of whole days between the two dates;
\* no row is added or removed
C17_TemposEmDias ==
  Aplicou("criar_campos_calculados") =>
    /\ Len(fn_saida.linhas) = Len(fn_entrada.linhas)
    /\ TempoCerto("TEMPO_INTERNACAO", "DT_INTERNA", "DT_EVOLUCA")
    /\ TempoCerto("TEMPO_UTI", "DT_ENTUTI", "DT_SAIDUTI")

\* C17 witness: a stay that ends two days before it starts (across the
\* leap day) gave -2, next to a row without an end date
C17_Witness ==
  /\ Aplicou("criar_campos_calculados")
  /\ fn_entrada.colunas = <<"DT_INTERNA", "DT_EVOLUCA">>
  /\ Len(fn_entrada.linhas) = 2
  /\ fn_entrada.linhas[1]["DT_INTERNA"] = <<"0","1","/","0","3","/","2","0","2","0">>
  /\ fn_entrada.linhas[1]["DT_EVOLUCA"] = <<"2","8","/","0","2","/","2","0","2","0">>
  /\ fn_entrada.linhas[2]["DT_EVOLUCA"] = Null
  /\ fn_saida.linhas[1]["TEMPO_INTERNACAO"] = <<"-","2",".","0">>
  /\ fn_saida.linhas[2]["TEMPO_INTERNACAO"] = Null

-----------------------------------------------------------------------------
(* The unification under partial load failure (checked under SpecUnif)     *)

\* The positions of arquivos_csv whose file exists and can be read under
\* some configuration
DevemCarregar ==
  {k \in DOMAIN un_arquivos : un_arquivos[k].existe /\ un_arquivos[k].le # {}}

\* C18: a file for which carregar_csv_robusto returns None is skipped and
\* the remaining files are still unified and saved; when no file loads the
\* script exits with status 1 and writes no unified file; when concat or
\* saving raises it exits with status 1
C18_FalhaParcialTolerada ==
  un_pc = "fim" =>
    /\ un_carregados = DevemCarregar
    /\ Len(un_dataframes) = Cardinality(DevemCarregar)
    /\ DevemCarregar = {} => un_status = 1 /\ ~un_saida.existe
    /\ (DevemCarregar # {} /\ un_disco_ok) =>
         /\ un_status = 0
         /\ un_saida.existe
         /\ Len(un_saida.quadro.linhas) = SomaLinhas(DevemCarregar)
    /\ (DevemCarregar # {} /\ ~un_disco_ok) => un_status = 1 /\ ~un_saida.existe

\* C18 witness: between a missing file and an unreadable file one file
\* loaded, and its rows were saved with status 0
C18_Witness ==
  /\ un_pc = "fim"
  /\ Len(un_arquivos) = 3
  /\ ~un_arquivos[1].existe
  /\ un_arquivos[3].existe /\ un_arquivos[3].le = {}
  /\ un_carregados = {2}
  /\ un_status = 0
  /\ un_saida.existe
  /\ Len(un_saida.quadro.linhas) = 2

-----------------------------------------------------------------------------
(* The checkbox fields (checked under SpecMapper)                          *)

\* Column c held no 'Sim'/'Não' text when the mapper was entered
SemRotuloNaEntrada(c) ==
  \A i \in DOMAIN df_entrada[c] :
    notnull(df_entrada[c][i]) =>
      str_upper(str_strip(df_entrada[c][i])) \notin {<<"S","I","M">>, <<"N","Ã","O">>}

\* C19: for every checkbox field present and not already holding
\* 'Sim'/'Não' on entry, after aplicar_categorias_completo every non-null
\* cell is 'Sim' if its value was 1 or 1.0 and 'Não' otherwise, also for
\* AN_SARS2 and AN_VSR and for columns in which no cell is 1
C19_CheckboxSimNao ==
  chamadas >= 1 =>
    \A c \in DOMAIN df_entrada \cap campos_checkbox :
      SemRotuloNaEntrada(c) =>
        \A i \in DOMAIN df_entrada[c] :
          notnull(df_entrada[c][i]) =>
            df_1[c][i] = IF str_strip(df_entrada[c][i]) \in {<<"1">>, <<"1",".","0">>}
                         THEN <<"S","i","m">> ELSE <<"N","ã","o">>

-----------------------------------------------------------------------------
(* The annotated date fields (checked under SpecFn)                        *)

\* A cell is a timestamp YYYY-MM-DD
CelulaDeData(x) ==
  /\ Len(x) = 10
  /\ x[5] = "-" /\ x[8] = "-"
  /\ \A k \in {1, 2, 3, 4, 6, 7, 9, 10} : x[k] \in Digitos

\* C20: every field the lookup table annotates as a date to be converted
\* is converted to a date by criar_campos_calculados whenever the column is
\* present: a cell that reads as a date becomes that date, every other cell
\* becomes null
C20_AnotadosConvertidos ==
  Aplicou("criar_campos_calculados") =>
    \A c \in CamposAnotados \cap NomesDe(fn_entrada.colunas) :
      /\ fn_saida.tipos[c] = "datetime64[ns]"
      /\ \A i \in DOMAIN fn_entrada.linhas :
           IF DataConhecida(fn_entrada.linhas[i][c]) = <<>>
           THEN fn_saida.linhas[i][c] = Null
           ELSE CelulaDeData(fn_saida.linhas[i][c])

-----------------------------------------------------------------------------
(* Termination of the formatter's main loop (checked under SpecFmt)        *)

\* The main loop is running and has a line to look at
NoLaco == fm_pc = "laco" /\ fm_i <= Len(fm_linhas)

\* One iteration of the main loop: i grows, by one on an empty line, a
\* section header and any other line, and to a position after i and not
\* beyond the end of linhas after a field block
IteracaoAvanca ==
  NoLaco =>
    /\ fm_voltas' = fm_voltas + 1
    /\ fm_i' > fm_i
    /\ fm_i' <= Len(fm_linhas) + 1
    /\ ~EhCampo(fm_i) => fm_i' = fm_i + 1

\* C21: the main scanning loop of formatar_dicionario terminates on every
\* input in every output format: each iteration strictly increases the
\* line index i (by 1 for blank, section and other lines, to j >= i+1 after
\* a field block), so the loop runs at most len(linhas) iterations.  The
\* loop is left exactly when i has passed the last line, and the function
\* returns after it
C21_LacoTermina ==
  /\ [](/\ fm_voltas <= Len(fm_linhas)
        /\ fm_voltas < fm_i
        /\ fm_pc = "fim" /\ fm_existe => fm_i = Len(fm_linhas) + 1)
  /\ [][IteracaoAvanca]_vars

\* C21 witness: the loop has ended after a field block that took three
\* lines in one iteration, in fewer iterations than there are lines
C21_Witness ==
  /\ fm_pc = "fim"
  /\ Len(fm_linhas) = 4
  /\ fm_voltas = 2
  /\ \E k \in DOMAIN fm_origem :
       fm_origem[k].caso = "campo" /\ Len(fm_origem[k].linhas) = 3

-----------------------------------------------------------------------------
(* Section headers in the formatter's output (checked under SpecFmt)       *)

\* A line made only of capitals, digits, whitespace and hyphens, and not
\* of whitespace alone
LinhaDeSecao(l) == padrao_secao(str_strip(l))

\* Line k of the lines ls stands between empty lines (or, being the first
\* line, before one)
EntreVazias(ls, k) ==
  /\ k < Len(ls) /\ str_strip(ls[k + 1]) = <<>>
  /\ k = 1 \/ str_strip(ls[k - 1]) = <<>>

\* C22: in the output of formatar_dicionario every section header line (only
\* capitals, digits, whitespace, hyphens) is immediately followed by an
\* empty line and, unless it is the first output line, immediately preceded
\* by an empty line, whatever precedes it in the input
C22_SecaoEntreVazias ==
  Formatou =>
    \A k \in DOMAIN split_linhas(fm_saida.conteudo) :
      LinhaDeSecao(split_linhas(fm_saida.conteudo)[k])
        => EntreVazias(split_linhas(fm_saida.conteudo), k)

-----------------------------------------------------------------------------
(* The three output formats compared (checked under SpecFmt)               *)

\* Where the inner loop of the structured format ends for the header at i
FimEstruturado(i) == fim_bloco("estruturado", fm_linhas, i + 1)

\* One iteration on a field header, in any format: the field takes the
\* input lines the structured format takes for that header, and the scan
\* resumes where the structured format resumes
CampoComoEstruturado ==
  (NoLaco /\ EhCampo(fm_i)) =>
    /\ fm_origem'[Len(fm_origem')].linhas
         = <<fm_i>> \o nao_vazias(fm_linhas, fm_i + 1, FimEstruturado(fm_i))
    /\ fm_i' = proximo_i(fm_i, FimEstruturado(fm_i))

\* C23: the three output formats differ only in rendering: the TEXTO and
\* MARKDOWN modes attach to each field exactly the input lines the
\* ESTRUTURADO mode attaches, and resume scanning at the same input line
\* after each field, also when a blank line is followed by a line that
\* starts with digits and '-' or '.' and is no field header
C23_FormatosIguais == [][CampoComoEstruturado]_vars

=============================================================================
